---- MODULE Spec2Model ----
(***************************************************************************)
(* Model of the log analysis engine (services/analysisEngine.ts, kept in   *)
(* src/unnamed/part_003): the rule store, analyzeLog and its callers.       *)
(*                                                                         *)
(* Text is a sequence of characters.  The model alphabet is small: the     *)
(* letters "a", "A", "b", the blank " ", the line terminators LF and CR,   *)
(* and FILL, one token that stands for a run of FillLen copies of a        *)
(* character that occurs in no keyword and no pattern (it is how a line    *)
(* of more than 2000 characters is written down).                          *)
(*                                                                         *)
(* A JavaScript object is a record; a property that is absent is a field   *)
(* that is not in the record's DOMAIN.                                     *)
(***************************************************************************)
EXTENDS Integers, Sequences, FiniteSets, TLC

LF == "\n"
CR == "\r"
FILL == "~"

\* Number of characters the FILL token stands for.
FillLen == 1999

Undefined == "undefined"

Has(obj, f) == f \in DOMAIN obj
Get(obj, f) == IF Has(obj, f) THEN obj[f] ELSE Undefined

Max(x, y) == IF x >= y THEN x ELSE y
Min(x, y) == IF x <= y THEN x ELSE y

(***************************************************************************)
(* Strings                                                                 *)
(***************************************************************************)

\* String.prototype.length of one character token and of a string.
CharLen(c) == IF c = FILL THEN FillLen ELSE 1

RECURSIVE StrLen(_)
StrLen(s) == IF s = <<>> THEN 0 ELSE CharLen(Head(s)) + StrLen(Tail(s))

\* Array.prototype.slice(start, end) / String.prototype.slice on 0-based
\* indices, end exclusive, for 0 <= start; end is clamped to the length.
Slice(s, start, end) == SubSeq(s, start + 1, Min(end, Len(s)))

\* String.prototype.includes: k occurs in s as a contiguous substring.
StrIncludes(s, k) ==
  \E p \in 0..(Len(s) - Len(k)) : SubSeq(s, p + 1, p + Len(k)) = k

IsSpace(c) == c \in {" ", CR, LF}

\* String.prototype.trim.
RECURSIVE TrimStart(_)
TrimStart(s) ==
  IF s # <<>> /\ IsSpace(Head(s)) THEN TrimStart(Tail(s)) ELSE s

RECURSIVE TrimEnd(_)
TrimEnd(s) ==
  IF s # <<>> /\ IsSpace(s[Len(s)]) THEN TrimEnd(SubSeq(s, 1, Len(s) - 1)) ELSE s

Trim(s) == TrimEnd(TrimStart(s))

\* fileContent.split(/\r?\n/): cut at every LF, dropping a CR that stands
\* right before it.  The result always has at least one element.
RECURSIVE SplitFrom(_, _, _)
SplitFrom(text, k, cur) ==
  IF k > Len(text) THEN <<cur>>
  ELSE IF text[k] = LF THEN <<cur>> \o SplitFrom(text, k + 1, <<>>)
  ELSE IF text[k] = CR /\ k < Len(text) /\ text[k + 1] = LF
       THEN <<cur>> \o SplitFrom(text, k + 2, <<>>)
  ELSE SplitFrom(text, k + 1, Append(cur, text[k]))

\* Mutant of SplitLines: the empty text has no lines.
SplitLines_EmptyHasNone(text) == IF text = <<>> THEN <<>> ELSE SplitFrom(text, 1, <<>>)

SplitLines(text) == SplitFrom(text, 1, <<>>)

\* match[0].split('\n')[0]: the text before the first LF.
RECURSIVE FirstLine(_)
FirstLine(s) ==
  IF s = <<>> \/ Head(s) = LF THEN <<>> ELSE <<Head(s)>> \o FirstLine(Tail(s))

\* Array.prototype.join('\n').
RECURSIVE JoinWith(_, _)
JoinWith(ls, sep) ==
  IF ls = <<>> THEN <<>>
  ELSE IF Len(ls) = 1 THEN ls[1]
  ELSE ls[1] \o sep \o JoinWith(Tail(ls), sep)

(***************************************************************************)
(* Regular expressions.  A pattern source is a sequence of pattern tokens: *)
(* a letter or blank (matches itself, case-insensitively under the 'i'     *)
(* flag), ESC_N (the two characters backslash n), LF (a newline character  *)
(* typed literally), ESC_D (the class backslash d; a counted repetition    *)
(* such as \d{4} is written out as four ESC_D), DOTSTAR (".*"), "(" and    *)
(* ")" (a capture group) and PGROUP (the opener "(?P<name>" of a           *)
(* Python-style named group).                                              *)
(***************************************************************************)
ESC_N == "\\n"
ESC_D == "\\d"
DOTSTAR == ".*"
PGROUP == "(?P<n>"

\* r.regex.replace(/\(\?P<[^>]+>/g, '(')
SanitizeRegex(src) ==
  [k \in 1..Len(src) |-> IF src[k] = PGROUP THEN "(" ELSE src[k]]

\* safeRegex.includes('\\n') || safeRegex.includes('\n')
DetectMultiline(safe) ==
  (\E k \in 1..Len(safe) : safe[k] = ESC_N) \/ (\E k \in 1..Len(safe) : safe[k] = LF)

\* Nesting depth of the groups after the first k tokens.
RECURSIVE Depth(_, _)
Depth(src, k) ==
  IF k = 0 THEN 0
  ELSE Depth(src, k - 1)
       + (IF src[k] = "(" THEN 1 ELSE IF src[k] = ")" THEN -1 ELSE 0)

\* new RegExp(src, 'i') throws a SyntaxError on an unbalanced parenthesis
\* and on the group opener "(?P<", which JavaScript does not know.
RegExpSyntaxOk(src) ==
  /\ \A k \in 1..Len(src) : src[k] # PGROUP /\ Depth(src, k) >= 0
  /\ Depth(src, Len(src)) = 0

\* The compiled program: the tokens that consume input (groups only capture).
RegExpNew(src) == SelectSeq(src, LAMBDA t : t \notin {"(", ")"})

\* Canonicalisation of the 'i' flag: a capital letter and its small letter
\* are the same character to the matcher.
Capitals ==
  <<"A", "B", "C", "D", "E", "F", "G", "H", "I", "J", "K", "L", "M",
    "N", "O", "P", "Q", "R", "S", "T", "U", "V", "W", "X", "Y", "Z">>
Smalls ==
  <<"a", "b", "c", "d", "e", "f", "g", "h", "i", "j", "k", "l", "m",
    "n", "o", "p", "q", "r", "s", "t", "u", "v", "w", "x", "y", "z">>
LowerOf ==
  [c \in {Capitals[n] : n \in 1..Len(Capitals)} |->
     Smalls[CHOOSE n \in 1..Len(Capitals) : Capitals[n] = c]]

Fold(c) == IF c \in DOMAIN LowerOf THEN LowerOf[c] ELSE c

Digits == {"0", "1", "2", "3", "4", "5", "6", "7", "8", "9"}

\* Mutant of TokenMatches: the class \d is taken for a literal character.
TokenMatches_NoDigitClass(t, c) ==
  IF t \in {ESC_N, LF} THEN c = LF ELSE Fold(t) = Fold(c)

\* One pattern token against one character.
TokenMatches(t, c) ==
  IF t \in {ESC_N, LF} THEN c = LF
  ELSE IF t = ESC_D THEN c \in Digits
  ELSE Fold(t) = Fold(c)

\* "." matches every character but a line terminator.
DotMatches(c) == c \notin {LF, CR}

\* Index of the last character of the run of DotMatches characters that
\* starts at ti (ti - 1 when the run is empty).
RECURSIVE DotRunEnd(_, _)
DotRunEnd(text, ti) ==
  IF ti <= Len(text) /\ DotMatches(text[ti]) THEN DotRunEnd(text, ti + 1) ELSE ti - 1

\* Backtracking match of prog[pi..] at text position ti: the index of the
\* last matched character of the first successful alternative (ti - 1 for an
\* empty match), or -1 when there is none.  ".*" is greedy: StarMatch tries
\* to let it end at e, then at e - 1, ... down to the empty run.
RECURSIVE MatchAt(_, _, _, _)
RECURSIVE StarMatch(_, _, _, _, _)
MatchAt(prog, pi, text, ti) ==
  IF pi > Len(prog) THEN ti - 1
  ELSE IF prog[pi] = DOTSTAR THEN StarMatch(prog, pi, text, ti, DotRunEnd(text, ti))
  ELSE IF ti <= Len(text) /\ TokenMatches(prog[pi], text[ti])
       THEN MatchAt(prog, pi + 1, text, ti + 1)
  ELSE -1

StarMatch(prog, pi, text, ti, e) ==
  IF e < ti - 1 THEN -1
  ELSE LET rest == MatchAt(prog, pi + 1, text, e + 1)
       IN IF rest # -1 THEN rest ELSE StarMatch(prog, pi, text, ti, e - 1)

\* The null that exec returns when nothing matches.
NoMatch == [found |-> FALSE, index |-> -1, text |-> <<>>]

\* RegExp.prototype.exec without the g flag: the leftmost match from start
\* position p on, with its index and match[0] (text), or null.
RECURSIVE ExecFrom(_, _, _)
ExecFrom(prog, text, p) ==
  IF p > Len(text) + 1 THEN NoMatch
  ELSE LET e == MatchAt(prog, 1, text, p)
       IN IF e # -1 THEN [found |-> TRUE, index |-> p - 1, text |-> SubSeq(text, p, e)]
          ELSE ExecFrom(prog, text, p + 1)

RegExpExec(prog, text) == ExecFrom(prog, text, 1)

(***************************************************************************)
(* Rules (types.ts, LogRule) and the engine                                *)
(***************************************************************************)
CRITICAL == "CRITICAL"
ERROR == "ERROR"
WARNING == "WARNING"

\* if (line.length > 2000) continue;
MAX_LINE_LENGTH == 2000

CONTEXT_LINES == 3

\* lines.slice(i, i + 10)
WINDOW_LINES == 10

\* (x.weight || 0)
WeightOf(r) == IF Has(r, "weight") THEN r.weight ELSE 0

\* Mutant of CompareRules: the operands swapped, an ascending sort.
CompareRules_Ascending(a, b) == WeightOf(a) - WeightOf(b)

\* The comparator handed to rules.sort: (a, b) => (b.weight || 0) - (a.weight || 0)
CompareRules(a, b) == WeightOf(b) - WeightOf(a)

\* Mutant of InsertSorted: an unstable sort, which moves an element in front
\* of the elements it compares equal to.
RECURSIVE InsertSorted_Unstable(_, _)
InsertSorted_Unstable(sorted, r) ==
  IF sorted = <<>> THEN <<r>>
  ELSE IF WeightOf(r) - WeightOf(sorted[Len(sorted)]) >= 0
       THEN Append(InsertSorted_Unstable(SubSeq(sorted, 1, Len(sorted) - 1), r),
                   sorted[Len(sorted)])
  ELSE Append(sorted, r)

\* Array.prototype.sort is a stable sort: an element moves in front of
\* another only when the comparator says it sorts strictly before it.
RECURSIVE InsertSorted(_, _)
InsertSorted(sorted, r) ==
  IF sorted = <<>> THEN <<r>>
  ELSE IF CompareRules(sorted[Len(sorted)], r) > 0
       THEN Append(InsertSorted(SubSeq(sorted, 1, Len(sorted) - 1), r), sorted[Len(sorted)])
  ELSE Append(sorted, r)

RECURSIVE SortRules(_)
SortRules(rules) ==
  IF rules = <<>> THEN <<>>
  ELSE InsertSorted(SortRules(SubSeq(rules, 1, Len(rules) - 1)), rules[Len(rules)])

\* The body of the try block throws: r.regex.replace on an absent regex is
\* a TypeError, new RegExp on a malformed source a SyntaxError.
CompileThrows(r) ==
  \/ ~Has(r, "regex")
  \/ ~RegExpSyntaxOk(SanitizeRegex(r.regex))

\* The object the try block returns: {...r, regExp, isMultiline}.
CompiledRule(r) ==
  [regExp |-> RegExpNew(SanitizeRegex(r.regex)),
   isMultiline |-> DetectMultiline(SanitizeRegex(r.regex))] @@ r

\* Mutant of TryCompile: no try/catch around the compilation.
TryCompile_NoCatch(r) ==
  IF CompileThrows(r)
  THEN [isNull |-> TRUE, value |-> r, logged |-> <<>>, escaped |-> TRUE]
  ELSE [isNull |-> FALSE, value |-> CompiledRule(r), logged |-> <<>>, escaped |-> FALSE]

\* Mutant of TryCompile: the catch block returns null without logging.
TryCompile_Silent(r) ==
  IF CompileThrows(r)
  THEN [isNull |-> TRUE, value |-> r, logged |-> <<>>, escaped |-> FALSE]
  ELSE [isNull |-> FALSE, value |-> CompiledRule(r), logged |-> <<>>, escaped |-> FALSE]

\* catch (e) { console.error(...); return null; }: what the map callback
\* yields for one rule (isNull: it yields null).  escaped: the exception leaves the callback.
TryCompile(r) ==
  IF CompileThrows(r)
  THEN [isNull |-> TRUE, value |-> r,
        logged |-> <<[ruleName |-> Get(r, "name")]>>, escaped |-> FALSE]
  ELSE [isNull |-> FALSE, value |-> CompiledRule(r), logged |-> <<>>, escaped |-> FALSE]

\* rules.map(...).filter(r => r !== null)
RECURSIVE CompileAll(_)
CompileAll(rules) ==
  IF rules = <<>> THEN <<>>
  ELSE LET c == TryCompile(Head(rules))
       IN (IF c.isNull THEN <<>> ELSE <<c.value>>) \o CompileAll(Tail(rules))

\* The console.error calls of the compile step, in order.
RECURSIVE CompileLog(_)
CompileLog(rules) ==
  IF rules = <<>> THEN <<>>
  ELSE TryCompile(Head(rules)).logged \o CompileLog(Tail(rules))

CompileEscapes(rules) == \E k \in 1..Len(rules) : TryCompile(rules[k]).escaped

\* Mutant of PassesKeywordFilter: the filter never skips a rule.
PassesKeywordFilter_Off(rule, line) == TRUE

\* 1. Keyword filter: rule.keywords.some(k => line.includes(k)), skipped
\* when keywords is absent or empty.
PassesKeywordFilter(rule, line) ==
  IF Has(rule, "keywords") /\ Len(rule.keywords) > 0
  THEN \E k \in 1..Len(rule.keywords) : StrIncludes(line, rule.keywords[k])
  ELSE TRUE

\* Mutant of CandidateText: every rule is tried on the line alone.
CandidateText_LineOnly(rule, lines, i) == lines[i + 1]

\* lines.slice(i, i + 10).join('\n') for a multi-line rule, the line itself
\* otherwise (i is 0-based).
CandidateText(rule, lines, i) ==
  IF rule.isMultiline
  THEN JoinWith(Slice(lines, i, i + WINDOW_LINES), <<LF>>)
  ELSE lines[i + 1]

\* 2. Regex match.
RuleMatch(rule, lines, i) == RegExpExec(rule.regExp, CandidateText(rule, lines, i))

\* Mutant of ExtractContext: the end of the slice is off by one.
ExtractContext_OffByOne(lines, i) ==
  Slice(lines, Max(0, i - CONTEXT_LINES), Min(Len(lines), i + CONTEXT_LINES))

\* 3. lines.slice(Math.max(0, i - 3), Math.min(lines.length, i + 3 + 1))
ExtractContext(lines, i) ==
  Slice(lines, Max(0, i - CONTEXT_LINES), Min(Len(lines), i + CONTEXT_LINES + 1))

\* The truncation marker '...'.
Ellipsis == <<".", ".", ".">>

\* Mutant of MatchContent: the whole anchor line instead of the first line
\* of the match.
MatchContent_WholeLine(rule, match, line) ==
  IF rule.isMultiline THEN line \o Ellipsis ELSE Trim(line)

\* rule.isMultiline ? match[0].split('\n')[0] + '...' : line.trim()
MatchContent(rule, match, line) ==
  IF rule.isMultiline THEN FirstLine(match.text) \o Ellipsis ELSE Trim(line)

\* Mutant of MakeIssue: lines beyond the length cap are left out of the
\* context.
MakeIssue_ContextWithinCap(rule, match, lines, i) ==
  [ruleId |-> Get(rule, "id"),
   ruleName |-> Get(rule, "name"),
   severity |-> Get(rule, "severity"),
   solution |-> Get(rule, "solution"),
   matchContent |-> MatchContent(rule, match, lines[i + 1]),
   lineNumber |-> i + 1,
   context |-> SelectSeq(ExtractContext(lines, i),
                         LAMBDA l : StrLen(l) <= MAX_LINE_LENGTH)]

\* issues.push({ ruleId, ruleName, severity, solution, matchContent,
\* lineNumber, context })
MakeIssue(rule, match, lines, i) ==
  [ruleId |-> Get(rule, "id"),
   ruleName |-> Get(rule, "name"),
   severity |-> Get(rule, "severity"),
   solution |-> Get(rule, "solution"),
   matchContent |-> MatchContent(rule, match, lines[i + 1]),
   lineNumber |-> i + 1,
   context |-> ExtractContext(lines, i)]

\* Mutant of RuleLoop: no break after a match.
RECURSIVE RuleLoop_NoBreak(_, _, _, _)
RuleLoop_NoBreak(compiled, k, lines, i) ==
  IF k > Len(compiled) THEN <<>>
  ELSE IF ~PassesKeywordFilter(compiled[k], lines[i + 1])
       THEN RuleLoop_NoBreak(compiled, k + 1, lines, i)
  ELSE LET match == RuleMatch(compiled[k], lines, i)
       IN IF ~match.found THEN RuleLoop_NoBreak(compiled, k + 1, lines, i)
          ELSE <<MakeIssue(compiled[k], match, lines, i)>>
                 \o RuleLoop_NoBreak(compiled, k + 1, lines, i)

\* for (const rule of compiledRules) { ... break; }: the issues line i adds,
\* trying the rules from position k on.
RECURSIVE RuleLoop(_, _, _, _)
RuleLoop(compiled, k, lines, i) ==
  IF k > Len(compiled) THEN <<>>
  ELSE IF ~PassesKeywordFilter(compiled[k], lines[i + 1])
       THEN RuleLoop(compiled, k + 1, lines, i)
  ELSE LET match == RuleMatch(compiled[k], lines, i)
       IN IF ~match.found THEN RuleLoop(compiled, k + 1, lines, i)
          ELSE <<MakeIssue(compiled[k], match, lines, i)>>

\* if (line.length > 2000) continue;
SkipsLine(line) == StrLen(line) > MAX_LINE_LENGTH

\* Mutant of LineLoop: the issues of a line are put in front of the result.
RECURSIVE LineLoop_Prepend(_, _, _)
LineLoop_Prepend(compiled, lines, i) ==
  IF i >= Len(lines) THEN <<>>
  ELSE LineLoop_Prepend(compiled, lines, i + 1)
       \o (IF SkipsLine(lines[i + 1]) THEN <<>> ELSE RuleLoop(compiled, 1, lines, i))

\* for (let i = 0; i < lines.length; i++) { ... }
RECURSIVE LineLoop(_, _, _)
LineLoop(compiled, lines, i) ==
  IF i >= Len(lines) THEN <<>>
  ELSE (IF SkipsLine(lines[i + 1]) THEN <<>> ELSE RuleLoop(compiled, 1, lines, i))
       \o LineLoop(compiled, lines, i + 1)

\* analyzeLog(fileContent, fileName, rules), rules being the array that
\* customRules || getRules() yields.  sorted is that same array afterwards
\* (rules.sort sorts it in place).  timestamp and durationMs are not
\* modelled.
analyzeLog(fileContent, rules) ==
  LET sorted == SortRules(rules)
      lines == SplitLines(fileContent)
      compiled == CompileAll(sorted)
  IN IF CompileEscapes(sorted)
     THEN [outcome |-> "rejected", rules |-> sorted, logged |-> <<>>,
           report |-> [totalLines |-> 0, issues |-> <<>>]]
     ELSE [outcome |-> "resolved", rules |-> sorted, logged |-> CompileLog(sorted),
           report |-> [totalLines |-> Len(lines),
                       issues |-> LineLoop(compiled, lines, 0)]]

(***************************************************************************)
(* The rule store (localStorage under STORAGE_KEY)                         *)
(***************************************************************************)

\* INITIAL_RULES as the module is loaded: the seven default rules with
\* their ids, severities and weights.  Names, solutions and the characters
\* of patterns and keywords are written in the model alphabet.
DefaultRule(id, re, kws, sev, w) ==
  [id |-> id, name |-> id, regex |-> re, keywords |-> kws,
   solution |-> "s", severity |-> sev, weight |-> w]

INITIAL_RULES_0 ==
  << DefaultRule("1", <<"a", "b", "(", DOTSTAR, ")">>, <<<<"a">>, <<"b">>>>, ERROR, 10),
     DefaultRule("2", <<"b", "(", DOTSTAR, ")", "b">>, <<<<"b">>>>, WARNING, 8),
     DefaultRule("3", <<"a", " ", "(", DOTSTAR, ")">>, <<<<"a">>>>, CRITICAL, 100),
     DefaultRule("4", <<"b", " ", "(", DOTSTAR, ")">>, <<<<"b">>>>, ERROR, 5),
     DefaultRule("5", <<"(", DOTSTAR, "a", ")", "(", DOTSTAR, ")">>, <<<<"a">>>>, ERROR, 2),
     DefaultRule("6", <<"b", "(", "A", ")">>, <<<<"b">>, <<"A">>>>, CRITICAL, 99),
     DefaultRule("7", <<DOTSTAR, "(", "A", ")", DOTSTAR>>, <<<<"A">>, <<"a">>>>, ERROR, 1) >>

\* The elements of INITIAL_RULES are never written to; sorting only moves
\* them.  The array is held as the sequence of their ids.
DefaultRuleById(id) ==
  INITIAL_RULES_0[CHOOSE k \in 1..Len(INITIAL_RULES_0) : INITIAL_RULES_0[k].id = id]

IdsOf(rules) == [k \in 1..Len(rules) |-> rules[k].id]

VARIABLES
  storage,        \* localStorage under STORAGE_KEY: absent, or the stored rules
  INITIAL_RULES,  \* the array object INITIAL_RULES: the ids of its elements, in order
  passed,         \* the last call of analyzeLog was given customRules
  customRules,    \* the array object the caller passed, as it is now
  argRules,       \* (history) its elements when the call was made
  fileContent,    \* the text of the last call
  outcome,        \* "none", or how the returned promise settled
  report,         \* the report of the last call
  logged,         \* console.error calls of the last call
  prevReport,     \* (history) the report of the call before
  calls,          \* number of calls made with these arguments
  filterText,     \* Analyzer state: the text of the filter box
  sortOrder,      \* Analyzer state: the sort order of the groups
  expandedGroupIds, \* Analyzer state: the groups shown unfolded
  groupedIssues,  \* Analyzer: the value of the groupedIssues memo
  kbRules,        \* KnowledgeBase state: rules
  importFile,     \* (history) the file of the last import
  importResult,   \* (history) how the last import ended and what it accepted
  uuidsDrawn      \* number of uuidv4() calls made

\* The state of the calls of analyzeLog.
scanVars == <<INITIAL_RULES, passed, customRules, argRules, fileContent,
              outcome, logged, prevReport, calls>>

engineVars == <<storage, scanVars>>

\* The state of the KnowledgeBase page.
kbVars == <<kbRules, importFile, importResult, uuidsDrawn>>

\* The state of the Analyzer page next to its report.
viewVars == <<filterText, sortOrder, expandedGroupIds, groupedIssues>>

VARIABLES
  allRules,       \* Analyzer state: the rules loaded when the page was mounted
  selectedRuleIds, \* Analyzer state: the ids ticked in the rule selector
  isProcessing,   \* Analyzer state
  pcFile,         \* where the running handleFileSelect stands
  fileText,       \* the file handed to handleFileSelect: how file.text() settles
  scanResult,     \* the value of the promise that handleFileSelect awaits
  selectedIssueId, \* Analyzer state: the issue shown in the detail panel
  playgroundLog,  \* KnowledgeBase state: the text of the playground
  playgroundSelectedRules, \* KnowledgeBase state: the ids ticked in the playground
  playgroundResults, \* KnowledgeBase state: the issues of the last test
  pcPlay,         \* where the running runPlaygroundTest stands
  playResult,     \* the value of the promise that runPlaygroundTest awaits
  searchTerm,     \* KnowledgeBase state: the text of the search box
  currentPage,    \* KnowledgeBase state: the page of the rule list
  mounted         \* the application is loaded: initStorage has run, the page is mounted

\* handleFileSelect and the state it works on.
fileVars == <<allRules, selectedRuleIds, isProcessing, pcFile, fileText, scanResult>>

\* runPlaygroundTest and the state it works on.
playVars == <<playgroundLog, playgroundSelectedRules, playgroundResults, pcPlay, playResult>>

\* The rule list of the KnowledgeBase page.
listVars == <<searchTerm, currentPage, mounted>>

pageVars == <<fileVars, selectedIssueId, playVars, listVars>>

vars == <<engineVars, report, viewVars, kbVars, pageVars>>

InitialRulesArray == [k \in 1..Len(INITIAL_RULES) |-> DefaultRuleById(INITIAL_RULES[k])]

\* localStorage.getItem(STORAGE_KEY) === null, and the item that
\* localStorage.setItem(STORAGE_KEY, JSON.stringify(rules)) leaves.
NoItem == [present |-> FALSE, item |-> <<>>]
Stored(rules) == [present |-> TRUE, item |-> rules]

\* JSON.parse(JSON.stringify(v)): a copy; absent properties stay absent.
JsonRoundTrip(v) == v

\* getRules(): the array it returns and whether that array is INITIAL_RULES
\* itself (the fallback) rather than a fresh JSON.parse result.
getRulesIsFallback == ~storage.present
getRules == IF storage.present THEN JsonRoundTrip(storage.item) ELSE InitialRulesArray

(***************************************************************************)
(* Inputs.  Short logs take every combination of the lines of LinePool;    *)
(* long logs are blank but for two adjacent lines of HotLines, which is    *)
(* what the context window and the 10-line window need.                    *)
(***************************************************************************)
MaxShortLines == 2
MaxLines == 11
MaxRules == 2
\* Lines plus rules of a scan of a short log.
MaxScanSize == 4

LinePool == { <<>>, <<"a">>, <<" ", "A">>, <<"b", "a">> }

HotLines == { <<"a">>, <<"b", "a">>, <<"a", FILL>>, <<"b", "a", FILL>> }

ShortLogs == UNION {[1..n -> LinePool] : n \in 1..MaxShortLines}

LongLogs ==
  { [k \in 1..t[1] |-> IF k = t[2] THEN t[3] ELSE IF k = t[2] + 1 THEN t[4] ELSE <<>>] :
      t \in {u \in ((MaxShortLines + 1)..MaxLines) \X (1..MaxLines) \X HotLines \X HotLines :
               u[2] < u[1]} }

\* Lines joined by LF; two lines joined by CR LF; one line with a newline
\* after it.
ShortTexts ==
  {JoinWith(ls, <<LF>>) : ls \in ShortLogs}
    \cup {JoinWith(ls, <<CR, LF>>) : ls \in {l \in ShortLogs : Len(l) = 2}}
    \cup {JoinWith(ls, <<LF>>) \o <<LF>> : ls \in {l \in ShortLogs : Len(l) = 1}}

LongTexts == {JoinWith(ls, <<LF>>) : ls \in LongLogs}

R1 ==
  [id |-> "r1", name |-> "n1", regex |-> <<"a">>, keywords |-> <<<<"a">>>>,
   solution |-> "s1", severity |-> ERROR, weight |-> 1]
R2 ==
  [id |-> "r2", name |-> "n2", regex |-> <<PGROUP, "b", ")">>, keywords |-> <<>>,
   solution |-> "s2", severity |-> WARNING, weight |-> 1]
\* no keywords
R3 ==
  [id |-> "r3", name |-> "n3", regex |-> <<DOTSTAR, "a">>,
   solution |-> "s3", severity |-> CRITICAL, weight |-> 2]
\* a multi-line pattern; no weight
R4 ==
  [id |-> "r4", name |-> "n4", regex |-> <<"a", ESC_N, "b">>, keywords |-> <<>>,
   solution |-> "s4", severity |-> ERROR]
\* an unbalanced parenthesis
R5 ==
  [id |-> "r5", name |-> "n5", regex |-> <<"(", "a">>, keywords |-> <<<<"a">>>>,
   solution |-> "s5", severity |-> ERROR, weight |-> 2]
\* no regex
R6 ==
  [id |-> "r6", name |-> "n6", keywords |-> <<<<"b">>>>,
   solution |-> "s6", severity |-> ERROR, weight |-> 1]

RulePool == {R1, R2, R3, R4, R5, R6}

IsInjective(f) == \A i, j \in DOMAIN f : f[i] = f[j] => i = j

RuleSets ==
  UNION {{rs \in [1..n -> RulePool] : IsInjective(rs)} : n \in 0..MaxRules}

\* The rule sets the long logs are scanned with.
LongRuleSets == {rs \in RuleSets : \A k \in 1..Len(rs) : rs[k] \in {R1, R4}}

\* The scenario of a build log with one failed step and one C# compiler
\* error, scanned with a rule for each.  The first rule has no keywords.
CsErrorRule ==
  [id |-> "cs", name |-> "cs",
   regex |-> <<"e", "r", "r", "o", "r", " ", "C", "S", ESC_D, ESC_D, ESC_D, ESC_D,
               ":", " ", "(", DOTSTAR, ")">>,
   solution |-> "s", severity |-> CRITICAL, weight |-> 100]
GenericFailureRule ==
  [id |-> "gf", name |-> "gf",
   regex |-> <<DOTSTAR, "f", "a", "i", "l", "e", "d", DOTSTAR>>,
   keywords |-> << <<"f", "a", "i", "l", "e", "d">> >>,
   solution |-> "s", severity |-> ERROR, weight |-> 1]
ScenarioRules == <<CsErrorRule, GenericFailureRule>>
ScenarioLog ==
  <<"B", "u", "i", "l", "d", " ", "f", "a", "i", "l", "e", "d", LF>>
    \o <<"e", "r", "r", "o", "r", " ", "C", "S", "0", "0", "2", "9", ":", " ",
         "c", "a", "n", "n", "o", "t", " ", "c", "o", "n", "v", "e", "r", "t", LF>>

\* A pattern that matches every text, the empty one included.
R7 ==
  [id |-> "r7", name |-> "n7", regex |-> <<"(", DOTSTAR, ")">>, keywords |-> <<>>,
   solution |-> "s7", severity |-> WARNING, weight |-> 1]

\* The rule sets with R7, and the texts of at most one character they are
\* scanned with (the empty text among them).
EdgeRuleSets ==
  {rs \in UNION {[1..n -> RulePool \cup {R7}] : n \in 1..MaxRules} :
     IsInjective(rs) /\ \E k \in 1..Len(rs) : rs[k] = R7}
EdgeTexts == {t \in ShortTexts : Len(t) <= 1}

ScanInputs ==
  {in \in ShortTexts \X RuleSets : Len(SplitLines(in[1])) + Len(in[2]) <= MaxScanSize}
    \cup (LongTexts \X LongRuleSets)
    \cup {<<ScenarioLog, ScenarioRules>>}
    \cup (EdgeTexts \X EdgeRuleSets)

(***************************************************************************)
(* Actions                                                                 *)
(***************************************************************************)
NoReport == [totalLines |-> 0, issues |-> <<>>]

\* null as the value of selectedIssueId and of playgroundResults, and the
\* file that no handleFileSelect is reading.
NoSelection == [isNull |-> TRUE, ruleId |-> "", lineNumber |-> 0]
NoResults == [isNull |-> TRUE, issues |-> <<>>]
NoText == [ok |-> TRUE, text |-> <<>>]

\* No promise of analyzeLog is awaited.
NoScan == [outcome |-> "none", report |-> NoReport]

\* The pages as they are constructed (the useState initial values), with no
\* handler running.
PageInit ==
  /\ allRules = <<>>
  /\ selectedRuleIds = {}
  /\ isProcessing = FALSE
  /\ pcFile = "idle"
  /\ fileText = NoText
  /\ scanResult = NoScan
  /\ selectedIssueId = NoSelection
  /\ playgroundLog = <<>>
  /\ playgroundSelectedRules = {}
  /\ playgroundResults = NoResults
  /\ pcPlay = "idle"
  /\ playResult = NoScan
  /\ searchTerm = <<>>
  /\ currentPage = 1
  /\ mounted = TRUE

\* No import has been made.
NoFile == [kind |-> "none", items |-> <<>>]
NoImport ==
  [outcome |-> "none", before |-> <<>>, added |-> <<>>,
   addedCount |-> 0, duplicateCount |-> 0]

\* initStorage() at module load: the key is absent, so the defaults are
\* stored; when localStorage.setItem throws, the key stays absent.
Init ==
  /\ storage \in {Stored(INITIAL_RULES_0), NoItem}
  /\ INITIAL_RULES = IdsOf(INITIAL_RULES_0)
  /\ passed = FALSE
  /\ customRules = <<>>
  /\ argRules = <<>>
  /\ fileContent = <<>>
  /\ outcome = "none"
  /\ report = NoReport
  /\ logged = <<>>
  /\ prevReport = NoReport
  /\ calls = 0
  /\ filterText = <<>>
  /\ sortOrder = "severity_desc"
  /\ expandedGroupIds = {}
  /\ groupedIssues = <<>>
  /\ kbRules = <<>>
  /\ importFile = NoFile
  /\ importResult = NoImport
  /\ uuidsDrawn = 0
  /\ PageInit

\* await analyzeLog(text, name, rules) with an array the caller holds.
AnalyzeCustom(text, rules) ==
  /\ LET res == analyzeLog(text, rules)
     IN /\ customRules' = res.rules
        /\ outcome' = res.outcome
        /\ report' = res.report
        /\ logged' = res.logged
  /\ passed' = TRUE
  /\ argRules' = rules
  /\ fileContent' = text
  /\ prevReport' = report
  /\ calls' = 1
  /\ UNCHANGED <<storage, INITIAL_RULES, viewVars, kbVars, pageVars>>

\* await analyzeLog(text, name): the rules are getRules().
AnalyzeStored(text) ==
  /\ LET res == analyzeLog(text, getRules)
     IN /\ INITIAL_RULES' = IF getRulesIsFallback THEN IdsOf(res.rules) ELSE INITIAL_RULES
        /\ outcome' = res.outcome
        /\ report' = res.report
        /\ logged' = res.logged
  /\ passed' = FALSE
  /\ argRules' = getRules
  /\ fileContent' = text
  /\ prevReport' = report
  /\ calls' = 1
  /\ UNCHANGED <<storage, customRules, viewVars, kbVars, pageVars>>

\* The same call once more: same text, same array object.
AnalyzeAgain ==
  /\ calls = 1
  /\ LET rules == IF passed THEN customRules ELSE getRules
         res == analyzeLog(fileContent, rules)
     IN /\ customRules' = IF passed THEN res.rules ELSE customRules
        /\ INITIAL_RULES' =
             IF ~passed /\ getRulesIsFallback THEN IdsOf(res.rules) ELSE INITIAL_RULES
        /\ outcome' = res.outcome
        /\ report' = res.report
        /\ logged' = res.logged
  /\ prevReport' = report
  /\ calls' = 2
  /\ UNCHANGED <<storage, passed, argRules, fileContent, viewVars, kbVars, pageVars>>

\* A call with customRules does not touch the store: those calls are
\* followed from the seeded store only.
Next ==
  \/ calls = 0 /\ storage.present /\ \E in \in ScanInputs : AnalyzeCustom(in[1], in[2])
  \/ calls = 0 /\ \E text \in ShortTexts : AnalyzeStored(text)
  \/ AnalyzeAgain

Spec == Init /\ [][Next]_vars

(***************************************************************************)
(* Properties of analyzeLog.  They are stated over the arguments of the    *)
(* last call (fileContent, argRules in the order the caller gave them)     *)
(* and what the call left behind.                                          *)
(***************************************************************************)
Called == calls >= 1
Lines == SplitLines(fileContent)
NumLines == Len(Lines)
Issues == report.issues
RuleIdx == 1..Len(argRules)
IssueIdx == 1..Len(Issues)

\* Rule k of the call is active: its pattern compiles.
Active(k) ==
  /\ Has(argRules[k], "regex")
  /\ RegExpSyntaxOk(SanitizeRegex(argRules[k].regex))

\* Rule k matches line i (0-based): it is active, line i passes its
\* keyword filter and its pattern matches its candidate text.
Matches(k, i) ==
  /\ Active(k)
  /\ PassesKeywordFilter(argRules[k], Lines[i + 1])
  /\ RuleMatch(CompiledRule(argRules[k]), Lines, i).found

Matching(i) == {k \in RuleIdx : Matches(k, i)}

TooLong(i) == StrLen(Lines[i + 1]) > MAX_LINE_LENGTH

\* Rule k has priority over rule j: higher weight, or the same weight and
\* earlier in the caller's order.
Outranks(k, j) ==
  \/ WeightOf(argRules[k]) > WeightOf(argRules[j])
  \/ WeightOf(argRules[k]) = WeightOf(argRules[j]) /\ k < j

Winner(i) == CHOOSE k \in Matching(i) : \A j \in Matching(i) \ {k} : Outranks(k, j)

IssuesAt(i) == {n \in IssueIdx : Issues[n].lineNumber = i + 1}

\* The rule of the call that has the given id.
RuleOf(id) == argRules[CHOOSE k \in RuleIdx : argRules[k].id = id]

\* C1: a line (within the length cap) that two or more active rules match
\* gets an Issue, and that Issue carries the id of the matching rule of
\* highest weight, the earliest in the caller's order among equal weights.
C1_PriorityInvariant ==
  Called =>
    \A i \in 0..(NumLines - 1) :
      (Cardinality(Matching(i)) >= 2 /\ ~TooLong(i)) =>
        /\ IssuesAt(i) # {}
        /\ \A n \in IssuesAt(i) : Issues[n].ruleId = argRules[Winner(i)].id

\* A line with two matching rules whose winner is not the first of them in
\* the caller's order.
C1_Witness ==
  /\ Called
  /\ \E i \in 0..(NumLines - 1) :
       /\ Cardinality(Matching(i)) >= 2
       /\ ~TooLong(i)
       /\ \E k \in Matching(i) : k < Winner(i)
       /\ IssuesAt(i) # {}

\* C2: no two Issues of a report have the same lineNumber.
C2_AtMostOneIssuePerLine ==
  Called =>
    \A m, n \in IssueIdx : m # n => Issues[m].lineNumber # Issues[n].lineNumber

\* Two lines that each are matched by two rules, both reported.
C2_Witness ==
  /\ Called
  /\ \E i, j \in 0..(NumLines - 1) :
       /\ i # j
       /\ Cardinality(Matching(i)) >= 2 /\ IssuesAt(i) # {}
       /\ Cardinality(Matching(j)) >= 2 /\ IssuesAt(j) # {}

\* C3: an Issue of a rule with a non-empty keywords list comes from a
\* candidate text (the line, or the window of a multi-line rule) that
\* contains one of the keywords.
C3_KeywordSoundness ==
  Called =>
    \A n \in IssueIdx :
      LET r == RuleOf(Issues[n].ruleId)
          text == CandidateText(CompiledRule(r), Lines, Issues[n].lineNumber - 1)
      IN (Has(r, "keywords") /\ Len(r.keywords) > 0) =>
           \E k \in 1..Len(r.keywords) : StrIncludes(text, r.keywords[k])

\* A rule with keywords is reported on one line, and is not reported on
\* another line that its pattern matches but that has none of its keywords.
C3_Witness ==
  /\ Called
  /\ \E k \in RuleIdx, i, j \in 0..(NumLines - 1) :
       /\ Active(k)
       /\ Has(argRules[k], "keywords") /\ Len(argRules[k].keywords) > 0
       /\ \E n \in IssuesAt(i) : Issues[n].ruleId = argRules[k].id
       /\ ~TooLong(j)
       /\ ~PassesKeywordFilter(argRules[k], Lines[j + 1])
       /\ RuleMatch(CompiledRule(argRules[k]), Lines, j).found
       /\ IssuesAt(j) = {}

\* Number of LF characters of a text.
RECURSIVE CountLF(_)
CountLF(s) ==
  IF s = <<>> THEN 0 ELSE (IF Head(s) = LF THEN 1 ELSE 0) + CountLF(Tail(s))

\* The lines (0-based) that the match behind Issue n covers.
MatchedLines(n) ==
  LET i == Issues[n].lineNumber - 1
      rule == CompiledRule(RuleOf(Issues[n].ruleId))
      text == CandidateText(rule, Lines, i)
      match == RegExpExec(rule.regExp, text)
      first == i + CountLF(SubSeq(text, 1, match.index))
  IN first..(first + CountLF(match.text))

\* C4: a line of more than 2000 characters produces no match: no Issue is
\* anchored at it and no Issue's match covers it.
C4_LengthCapExclusion ==
  Called =>
    \A n \in IssueIdx :
      /\ ~TooLong(Issues[n].lineNumber - 1)
      /\ \A j \in MatchedLines(n) : ~TooLong(j)

\* C5: the context of an Issue anchored at line i (0-based) of N lines is
\* lines max(0, i-3) .. min(i+3, N-1), in order.
C5_ContextBounds ==
  Called =>
    \A n \in IssueIdx :
      LET i == Issues[n].lineNumber - 1
          lo == Max(0, i - 3)
          hi == Min(i + 3, NumLines - 1)
          context == Issues[n].context
      IN /\ 0 <= lo /\ hi < NumLines
         /\ Len(context) = hi - lo + 1
         /\ \A k \in 1..Len(context) : context[k] = Lines[lo + k]

\* One Issue whose context is cut at the start of the log only, one whose
\* context is cut at the end only, and one over-long line in a context.
C5_Witness ==
  /\ Called
  /\ \E m, n \in IssueIdx :
       /\ Issues[m].lineNumber - 1 - 3 < 0
       /\ Issues[m].lineNumber - 1 + 3 <= NumLines - 1
       /\ Issues[n].lineNumber - 1 - 3 >= 0
       /\ Issues[n].lineNumber - 1 + 3 > NumLines - 1
       /\ Len(Issues[n].context) < Len(Issues[m].context)

\* C6: a second call with the same text and the same array, as the first
\* call left it, returns the same issues and the same totalLines.
C6_Idempotence ==
  calls = 2 =>
    /\ report.issues = prevReport.issues
    /\ report.totalLines = prevReport.totalLines

\* The first call reordered the array it was given, and a line that two of
\* its rules match is reported by both calls.
C6_Witness ==
  /\ calls = 2
  /\ passed
  /\ customRules # argRules
  /\ prevReport.issues # <<>>
  /\ \E i \in 0..(NumLines - 1) : Cardinality(Matching(i)) >= 2 /\ IssuesAt(i) # {}

\* C7: after the call the array passed in, and the default collection when
\* none was passed, hold the same elements in the same order as before.
C7_RulesUnchanged ==
  Called =>
    /\ passed => customRules = argRules
    /\ INITIAL_RULES = IdsOf(INITIAL_RULES_0)

\* The pattern of rule k is present and does not compile.
InvalidPattern(k) ==
  /\ Has(argRules[k], "regex")
  /\ ~RegExpSyntaxOk(SanitizeRegex(argRules[k].regex))

\* The call was given one rule with an invalid pattern and one valid rule.
OneInvalidOneValid(bad, good) ==
  /\ Called
  /\ Len(argRules) = 2
  /\ bad \in RuleIdx /\ good \in RuleIdx
  /\ InvalidPattern(bad)
  /\ Active(good)

\* The report holds every issue the rule finds: an Issue of it at each line
\* within the cap that it matches, and no other Issue.
ReportsAllOf(good) ==
  /\ \A i \in 0..(NumLines - 1) :
       (Matches(good, i) /\ ~TooLong(i)) <=>
         (\E n \in IssuesAt(i) : Issues[n].ruleId = argRules[good].id)
  /\ \A n \in IssueIdx : Issues[n].ruleId = argRules[good].id

\* What the caller receives of the compile diagnostics: the resolved report
\* (fileName, totalLines, timestamp, issues, durationMs).
ReturnedDiagnostics == IF Has(report, "diagnostics") THEN report.diagnostics ELSE <<>>

\* C8, as claimed: with one invalid and one valid rule the call returns the
\* issues of the valid rule and hands exactly one compile diagnostic, for
\* the invalid rule, to the caller.
C8_DiagnosticReturned ==
  \A bad, good \in RuleIdx :
    OneInvalidOneValid(bad, good) =>
      /\ outcome = "resolved"
      /\ ReportsAllOf(good)
      /\ Len(ReturnedDiagnostics) = 1

\* C8, amended: the call returns the issues of the valid rule; the compile
\* diagnostic for the invalid rule is one console.error call, and the
\* report handed to the caller carries none.
C8_DiagnosticLogged ==
  \A bad, good \in RuleIdx :
    OneInvalidOneValid(bad, good) =>
      /\ outcome = "resolved"
      /\ ReportsAllOf(good)
      /\ Len(logged) = 1
      /\ logged[1].ruleName = argRules[bad].name
      /\ Len(ReturnedDiagnostics) = 0

\* The invalid rule outweighs the valid one, which finds an issue.
C8_Witness ==
  \E bad, good \in RuleIdx :
    /\ OneInvalidOneValid(bad, good)
    /\ Outranks(bad, good)
    /\ Issues # <<>>

\* The rules of the call the compile step cannot compile: no pattern, or a
\* pattern that is not a regular expression.
Offending(r) == ~Has(r, "regex") \/ ~RegExpSyntaxOk(SanitizeRegex(r.regex))

Remaining == SelectSeq(argRules, LAMBDA r : ~Offending(r))

HeaderAt(k, j) ==
  /\ Active(k)
  /\ CompiledRule(argRules[k]).isMultiline
  /\ j + 1 < NumLines
  /\ RegExpExec(CompiledRule(argRules[k]).regExp,
                Lines[j + 1] \o <<LF>> \o Lines[j + 2]).found

\* Column (0-based) of the header line where that match starts.
HeaderStart(k, j) ==
  RegExpExec(CompiledRule(argRules[k]).regExp, Lines[j + 1] \o <<LF>> \o Lines[j + 2]).index

\* Rule k is the one line j is decided by: the line is within the cap,
\* passes the rule's keyword filter, and no matching rule has priority.
Decides(k, j) ==
  /\ ~TooLong(j)
  /\ PassesKeywordFilter(argRules[k], Lines[j + 1])
  /\ \A o \in Matching(j) \ {k} : Outranks(k, o)

\* C10, as claimed: the Issue of a multi-line rule is anchored at the
\* header line and its matchContent is the header line followed by "...".
C10_HeaderLineContent ==
  Called =>
    \A k \in RuleIdx, j \in 0..(NumLines - 1) :
      (HeaderAt(k, j) /\ Decides(k, j)) =>
        \E n \in IssuesAt(j) :
          /\ Issues[n].ruleId = argRules[k].id
          /\ Issues[n].matchContent = Lines[j + 1] \o Ellipsis

\* C10, amended: the Issue is anchored at the header line and its
\* matchContent is the first line of the matched span, that is the header
\* line from the column where the match starts, followed by "...".
C10_MatchedSpanContent ==
  Called =>
    \A k \in RuleIdx, j \in 0..(NumLines - 1) :
      (HeaderAt(k, j) /\ Decides(k, j)) =>
        \E n \in IssuesAt(j) :
          /\ Issues[n].ruleId = argRules[k].id
          /\ Issues[n].matchContent =
               SubSeq(Lines[j + 1], HeaderStart(k, j) + 1, Len(Lines[j + 1])) \o Ellipsis

\* A multi-line rule reported at a header line that the match does not
\* cover from its first column.
C10_Witness ==
  /\ Called
  /\ \E k \in RuleIdx, j \in 0..(NumLines - 1) :
       /\ HeaderAt(k, j) /\ Decides(k, j)
       /\ HeaderStart(k, j) > 0
       /\ \E n \in IssuesAt(j) : Issues[n].ruleId = argRules[k].id

\* Rule k's compiled pattern matches the candidate text of line i (0-based),
\* the keyword filter left aside.
PatternMatches(k, i) ==
  /\ Active(k)
  /\ RuleMatch(CompiledRule(argRules[k]), Lines, i).found

\* C11: the keyword prefilter has no false negatives: whenever the compiled
\* (case-insensitive) pattern of a rule matches the candidate text of a
\* line within the length cap, the prefilter lets that rule through for
\* that line.
C11_PrefilterSafe ==
  Called =>
    \A k \in RuleIdx, i \in 0..(NumLines - 1) :
      (~TooLong(i) /\ PatternMatches(k, i)) =>
        PassesKeywordFilter(argRules[k], Lines[i + 1])

\* The call of the scenario has been made.
ScenarioCalled == Called /\ passed /\ fileContent = ScenarioLog /\ argRules = ScenarioRules

\* C12: the scenario (C# error rule of weight 100 without keywords, generic
\* failure rule of weight 1 with keyword 'failed', log 'Build failed' /
\* 'error CS0029: cannot convert' / trailing newline) yields exactly two
\* issues: line 1 by the generic failure rule, line 2 by the C# error rule.
C12_Scenario ==
  ScenarioCalled =>
    /\ outcome = "resolved"
    /\ Len(Issues) = 2
    /\ Issues[1].lineNumber = 1 /\ Issues[1].ruleId = GenericFailureRule.id
    /\ Issues[2].lineNumber = 2 /\ Issues[2].ruleId = CsErrorRule.id

\* The scenario has been scanned: three lines, the last one empty, and the
\* rules reordered by weight to what they were given as.
C12_Witness ==
  /\ ScenarioCalled
  /\ report.totalLines = 3
  /\ Issues # <<>>
  /\ customRules = ScenarioRules

\* C13: the lineNumber values of the issues of a report are strictly
\* increasing along the sequence.
C13_LineOrder ==
  Called =>
    \A m, n \in IssueIdx : m < n => Issues[m].lineNumber < Issues[n].lineNumber

\* Two issues of which the later one comes from the rule of higher weight
\* and is the more severe one.
C13_Witness ==
  /\ Called
  /\ \E m, n \in IssueIdx :
       /\ m < n
       /\ WeightOf(RuleOf(Issues[m].ruleId)) < WeightOf(RuleOf(Issues[n].ruleId))
       /\ Issues[m].severity = ERROR
       /\ Issues[n].severity = CRITICAL

\* Line j (0-based) is within CONTEXT_LINES lines of line i.
Near(i, j) == j >= i - CONTEXT_LINES /\ j <= i + CONTEXT_LINES

\* C14: a line of more than 2000 characters is skipped for matching only:
\* totalLines is the number of lines the text splits into, and every Issue
\* anchored within 3 lines of the over-long line has it in its context, at
\* its place.
C14_LongLineCounted ==
  (Called /\ outcome = "resolved") =>
    /\ report.totalLines = NumLines
    /\ \A n \in IssueIdx, j \in 0..(NumLines - 1) :
         LET i == Issues[n].lineNumber - 1
             lo == Max(0, i - CONTEXT_LINES)
         IN (TooLong(j) /\ Near(i, j)) =>
              /\ j - lo + 1 \in 1..Len(Issues[n].context)
              /\ Issues[n].context[j - lo + 1] = Lines[j + 1]

\* An over-long line, itself not reported, next to a reported line.
C14_Witness ==
  /\ Called
  /\ \E j \in 0..(NumLines - 1) :
       /\ TooLong(j)
       /\ IssuesAt(j) = {}
       /\ \/ j + 1 < NumLines /\ IssuesAt(j + 1) # {}
          \/ j > 0 /\ IssuesAt(j - 1) # {}

\* Rule k is active, has no keyword to test and its pattern matches the
\* empty string.
MatchesEmpty(k) ==
  /\ Active(k)
  /\ ~(Has(argRules[k], "keywords") /\ Len(argRules[k].keywords) > 0)
  /\ RegExpExec(RegExpNew(SanitizeRegex(argRules[k].regex)), <<>>).found

EmptyInput == Called /\ fileContent = <<>>

getSeverityWeight(sev) ==
  IF sev = CRITICAL THEN 3 ELSE IF sev = ERROR THEN 2 ELSE 1

\* String.prototype.toLowerCase
ToLowerCase(s) == [k \in 1..Len(s) |-> Fold(s[k])]

\* The filter test of the forEach body: no filter text, or the lowered text
\* is part of the lowered ruleName or matchContent.
PassesFilter(issue, text) ==
  \/ text = <<>>
  \/ StrIncludes(ToLowerCase(issue.ruleName), ToLowerCase(text))
  \/ StrIncludes(ToLowerCase(issue.matchContent), ToLowerCase(text))

\* The groups object is the sequence of its values in the order their keys
\* were inserted.
GroupAt(groups, ruleId) == {g \in 1..Len(groups) : groups[g].ruleId = ruleId}

NewGroup(issue) ==
  [ruleId |-> issue.ruleId, ruleName |-> issue.ruleName,
   severity |-> issue.severity, issues |-> <<>>]

\* Mutant of AddIssue: the group is created before the filter is tested.
AddIssue_GroupBeforeFilter(groups, issue, text) ==
  LET withGroup == IF GroupAt(groups, issue.ruleId) = {}
                   THEN Append(groups, NewGroup(issue)) ELSE groups
      g == CHOOSE g \in GroupAt(withGroup, issue.ruleId) : TRUE
  IN IF ~PassesFilter(issue, text) THEN withGroup
     ELSE [withGroup EXCEPT ![g].issues = Append(@, issue)]

\* The body of report.issues.forEach(issue => { ... }).
AddIssue(groups, issue, text) ==
  IF ~PassesFilter(issue, text) THEN groups
  ELSE LET withGroup == IF GroupAt(groups, issue.ruleId) = {}
                        THEN Append(groups, NewGroup(issue)) ELSE groups
           g == CHOOSE g \in GroupAt(withGroup, issue.ruleId) : TRUE
       IN [withGroup EXCEPT ![g].issues = Append(@, issue)]

\* report.issues.forEach over the issues from position k on.
RECURSIVE BucketIssues(_, _, _, _)
BucketIssues(groups, issues, k, text) ==
  IF k > Len(issues) THEN groups
  ELSE BucketIssues(AddIssue(groups, issues[k], text), issues, k + 1, text)

\* Object.values lists the keys that are array indices first, in ascending
\* numeric order, and the other keys after them in insertion order.  The
\* array-index keys of the model are the one-digit strings.
DigitStrings == <<"0", "1", "2", "3", "4", "5", "6", "7", "8", "9">>
IsArrayIndex(key) == key \in Digits
IndexValue(key) == CHOOSE n \in 0..9 : DigitStrings[n + 1] = key

RECURSIVE InsertByIndex(_, _)
InsertByIndex(sorted, g) ==
  IF sorted = <<>> THEN <<g>>
  ELSE IF IndexValue(sorted[Len(sorted)].ruleId) > IndexValue(g.ruleId)
       THEN Append(InsertByIndex(SubSeq(sorted, 1, Len(sorted) - 1), g), sorted[Len(sorted)])
  ELSE Append(sorted, g)

RECURSIVE SortByIndex(_)
SortByIndex(groups) ==
  IF groups = <<>> THEN <<>>
  ELSE InsertByIndex(SortByIndex(SubSeq(groups, 1, Len(groups) - 1)), groups[Len(groups)])

ObjectValues(groups) ==
  SortByIndex(SelectSeq(groups, LAMBDA g : IsArrayIndex(g.ruleId)))
    \o SelectSeq(groups, LAMBDA g : ~IsArrayIndex(g.ruleId))

\* String.prototype.localeCompare on texts of letters: letters compare by
\* their place in the alphabet whatever their case (a prefix sorts first);
\* texts equal up to case are told apart at the first difference, where the
\* small letter sorts first.  The result is negative, zero or positive.
CollationRank(c) ==
  IF \E n \in 1..Len(Smalls) : Smalls[n] = Fold(c)
  THEN CHOOSE n \in 1..Len(Smalls) : Smalls[n] = Fold(c)
  ELSE 0

RECURSIVE PrimaryCompare(_, _)
PrimaryCompare(a, b) ==
  IF a = <<>> /\ b = <<>> THEN 0
  ELSE IF a = <<>> THEN -1
  ELSE IF b = <<>> THEN 1
  ELSE IF CollationRank(Head(a)) # CollationRank(Head(b))
       THEN CollationRank(Head(a)) - CollationRank(Head(b))
  ELSE PrimaryCompare(Tail(a), Tail(b))

RECURSIVE CaseCompare(_, _)
CaseCompare(a, b) ==
  IF a = <<>> \/ b = <<>> THEN 0
  ELSE IF Head(a) = Head(b) THEN CaseCompare(Tail(a), Tail(b))
  ELSE IF Head(a) = Fold(Head(a)) THEN -1
  ELSE 1

LocaleCompare(a, b) ==
  IF PrimaryCompare(a, b) # 0 THEN PrimaryCompare(a, b) ELSE CaseCompare(a, b)

\* Mutant of CompareGroups: severity_desc compares the member counts first.
CompareGroups_CountFirst(a, b, order) ==
  IF order = "severity_desc"
  THEN IF Len(a.issues) # Len(b.issues) THEN Len(b.issues) - Len(a.issues)
       ELSE getSeverityWeight(b.severity) - getSeverityWeight(a.severity)
  ELSE IF order = "count_desc" THEN Len(b.issues) - Len(a.issues)
  ELSE IF order = "name_asc" THEN LocaleCompare(a.ruleName, b.ruleName)
  ELSE 0

\* The comparator of result.sort((a, b) => { ... }).
CompareGroups(a, b, order) ==
  IF order = "severity_desc"
  THEN IF getSeverityWeight(a.severity) # getSeverityWeight(b.severity)
       THEN getSeverityWeight(b.severity) - getSeverityWeight(a.severity)
       ELSE Len(b.issues) - Len(a.issues)
  ELSE IF order = "count_desc" THEN Len(b.issues) - Len(a.issues)
  ELSE IF order = "name_asc" THEN LocaleCompare(a.ruleName, b.ruleName)
  ELSE 0

\* result.sort: a stable sort.
RECURSIVE InsertGroup(_, _, _)
InsertGroup(sorted, g, order) ==
  IF sorted = <<>> THEN <<g>>
  ELSE IF CompareGroups(sorted[Len(sorted)], g, order) > 0
       THEN Append(InsertGroup(SubSeq(sorted, 1, Len(sorted) - 1), g, order),
                   sorted[Len(sorted)])
  ELSE Append(sorted, g)

RECURSIVE SortGroups(_, _)
SortGroups(groups, order) ==
  IF groups = <<>> THEN <<>>
  ELSE InsertGroup(SortGroups(SubSeq(groups, 1, Len(groups) - 1), order),
                   groups[Len(groups)], order)

\* The function of the groupedIssues memo.  A null report is the report
\* without issues.
ComputeGroupedIssues(rep, text, order) ==
  SortGroups(ObjectValues(BucketIssues(<<>>, rep.issues, 1, text)), order)

(***************************************************************************)
(* Reports given to the Analyzer page.  An issue is of one of four rules   *)
(* (two of them with array-index ids) and has one of two match contents;   *)
(* its lineNumber is twice its place in the report.                        *)
(***************************************************************************)
MaxIssues == 3

ViewRuleIds == {"3", "1", "r1", "r2"}

ViewRuleName(id) ==
  IF id = "3" THEN <<"B">>
  ELSE IF id = "1" THEN <<"a">>
  ELSE IF id = "r1" THEN <<"A", "b">>
  ELSE <<"a", "b">>

ViewRuleSeverity(id) ==
  IF id = "3" THEN CRITICAL ELSE IF id = "r2" THEN WARNING ELSE ERROR

IssueKinds ==
  { <<"3", <<"a">> >>, <<"3", <<"b">> >>, <<"1", <<"b">> >>,
    <<"r1", <<"b">> >>, <<"r2", <<"a">> >> }

ViewIssue(kind, k) ==
  [ruleId |-> kind[1],
   ruleName |-> ViewRuleName(kind[1]),
   severity |-> ViewRuleSeverity(kind[1]),
   solution |-> "s",
   matchContent |-> kind[2],
   lineNumber |-> 2 * k,
   context |-> <<kind[2]>>]

ViewReports ==
  { [totalLines |-> 2 * MaxIssues,
     issues |-> [k \in 1..Len(kinds) |-> ViewIssue(kinds[k], k)]] :
      kinds \in UNION {[1..n -> IssueKinds] : n \in 0..MaxIssues} }

FilterTexts == { <<>>, <<"A">>, <<"b">> }

SortOrders == {"severity_desc", "count_desc", "name_asc"}

\* The page after setReport(result): the memo holds the groups of the
\* report under the initial filter text and sort order.
ViewInit ==
  /\ storage = Stored(INITIAL_RULES_0)
  /\ INITIAL_RULES = IdsOf(INITIAL_RULES_0)
  /\ passed = FALSE
  /\ customRules = <<>>
  /\ argRules = <<>>
  /\ fileContent = <<>>
  /\ outcome = "resolved"
  /\ report \in ViewReports
  /\ logged = <<>>
  /\ prevReport = NoReport
  /\ calls = 0
  /\ filterText = <<>>
  /\ sortOrder = "severity_desc"
  /\ expandedGroupIds = {}
  /\ groupedIssues = ComputeGroupedIssues(report, <<>>, "severity_desc")
  /\ kbRules = <<>>
  /\ importFile = NoFile
  /\ importResult = NoImport
  /\ uuidsDrawn = 0
  /\ PageInit

\* Mutant of SetFilterText: the filter is applied to report.issues itself.
SetFilterText_FiltersReport(text) ==
  /\ filterText' = text
  /\ report' = [report EXCEPT !.issues = SelectSeq(@, LAMBDA i : PassesFilter(i, text))]
  /\ groupedIssues' = ComputeGroupedIssues(report', text, sortOrder)
  /\ UNCHANGED <<engineVars, kbVars, pageVars, sortOrder, expandedGroupIds>>

\* onChange of the filter box: setFilterText(e.target.value); the memo is
\* recomputed.
SetFilterText(text) ==
  /\ filterText' = text
  /\ groupedIssues' = ComputeGroupedIssues(report, text, sortOrder)
  /\ UNCHANGED <<engineVars, kbVars, pageVars, report, sortOrder, expandedGroupIds>>

\* onChange of the sort select: setSortOrder(e.target.value).
SetSortOrder(order) ==
  /\ sortOrder' = order
  /\ groupedIssues' = ComputeGroupedIssues(report, filterText, order)
  /\ UNCHANGED <<engineVars, kbVars, pageVars, report, filterText, expandedGroupIds>>

\* toggleGroup(ruleId) of a group on display.  The page renders again with
\* the dependencies of the memo unchanged: React hands out the value it
\* kept or computes it anew.
ToggleGroup(ruleId) ==
  /\ \E g \in 1..Len(groupedIssues) : groupedIssues[g].ruleId = ruleId
  /\ expandedGroupIds' =
       IF ruleId \in expandedGroupIds THEN expandedGroupIds \ {ruleId}
       ELSE expandedGroupIds \cup {ruleId}
  /\ groupedIssues' \in {groupedIssues, ComputeGroupedIssues(report, filterText, sortOrder)}
  /\ UNCHANGED <<engineVars, kbVars, pageVars, report, filterText, sortOrder>>

ViewNext ==
  \/ \E text \in FilterTexts : SetFilterText(text)
  \/ \E order \in SortOrders : SetSortOrder(order)
  \/ \E ruleId \in ViewRuleIds : ToggleGroup(ruleId)

ViewSpec == ViewInit /\ [][ViewNext]_vars

(***************************************************************************)
(* Properties of the groups on display.                                    *)
(***************************************************************************)
GroupIdx == 1..Len(groupedIssues)

MoreSevere(x, y) ==
  \/ x = CRITICAL /\ y \in {ERROR, WARNING}
  \/ x = ERROR /\ y = WARNING

\* C16: under severity_desc no group stands behind a less severe one
\* (CRITICAL before ERROR before WARNING, whatever the member counts), and
\* of two groups of the same severity the one with more members never
\* stands behind the one with fewer.
C16_SeverityDescOrder ==
  sortOrder = "severity_desc" =>
    \A p, q \in GroupIdx :
      p < q =>
        /\ ~MoreSevere(groupedIssues[q].severity, groupedIssues[p].severity)
        /\ groupedIssues[p].severity = groupedIssues[q].severity =>
             Len(groupedIssues[p].issues) >= Len(groupedIssues[q].issues)

\* Under severity_desc and a filter text, a more severe group with fewer
\* members stands before a less severe one with more members.
C16_Witness ==
  /\ sortOrder = "severity_desc"
  /\ filterText # <<>>
  /\ \E p, q \in GroupIdx :
       /\ p < q
       /\ MoreSevere(groupedIssues[p].severity, groupedIssues[q].severity)
       /\ Len(groupedIssues[p].issues) < Len(groupedIssues[q].issues)

\* C17: the groups are a function of the report, the filter text and the
\* sort order: a step that leaves the three alone leaves the group sequence
\* alone, and no step of the page changes the issues of the report.
C17_PureView ==
  [][ /\ report'.issues = report.issues
      /\ (report' = report /\ filterText' = filterText /\ sortOrder' = sortOrder)
           => groupedIssues' = groupedIssues
      /\ groupedIssues' = ComputeGroupedIssues(report', filterText', sortOrder') ]_vars

\* The filter text and the sort order have been changed, a group has been
\* unfolded (the page rendered again), and the filter hides an issue of the
\* report.
C17_Witness ==
  /\ filterText # <<>>
  /\ sortOrder # "severity_desc"
  /\ expandedGroupIds # {}
  /\ Len(groupedIssues) >= 2
  /\ \E n \in 1..Len(report.issues) : ~PassesFilter(report.issues[n], filterText)

\* The text k is part of the text s, letter case aside.
IncludesIgnoringCase(s, k) ==
  \E p \in 0..(Len(s) - Len(k)) : \A j \in 1..Len(k) : Fold(s[p + j]) = Fold(k[j])

\* The issue passes the filter on display.
Shown(issue) ==
  \/ filterText = <<>>
  \/ IncludesIgnoringCase(issue.ruleName, filterText)
  \/ IncludesIgnoringCase(issue.matchContent, filterText)

\* C18: the groups partition the issues that pass the filter by ruleId: the
\* members of a group are exactly the passing issues of its ruleId, in the
\* order of the report; no two groups have the same ruleId; every passing
\* issue has a group; no group is empty.
C18_GroupingPartition ==
  /\ \A g \in GroupIdx :
       /\ groupedIssues[g].issues # <<>>
       /\ groupedIssues[g].issues =
            SelectSeq(report.issues,
                      LAMBDA i : Shown(i) /\ i.ruleId = groupedIssues[g].ruleId)
  /\ \A g, h \in GroupIdx : g # h => groupedIssues[g].ruleId # groupedIssues[h].ruleId
  /\ \A n \in 1..Len(report.issues) :
       Shown(report.issues[n]) =>
         \E g \in GroupIdx : groupedIssues[g].ruleId = report.issues[n].ruleId

\* Under a filter text a group has two members while a third issue of its
\* rule, between them in the report, is hidden.
C18_Witness ==
  /\ filterText # <<>>
  /\ \E g \in GroupIdx, n \in 1..Len(report.issues) :
       /\ Len(groupedIssues[g].issues) = 2
       /\ report.issues[n].ruleId = groupedIssues[g].ruleId
       /\ ~Shown(report.issues[n])
       /\ groupedIssues[g].issues[1].lineNumber < report.issues[n].lineNumber
       /\ report.issues[n].lineNumber < groupedIssues[g].issues[2].lineNumber

(***************************************************************************)
(* The KnowledgeBase page: import of rules from a JSON file.  An entry of  *)
(* the file is a record of the properties it has, or the JSON value null.  *)
(***************************************************************************)
JsonNull == [null |-> TRUE]

\* The value that uuidv4() returns on its n-th call: the values are taken
\* to be all different and different from the ids in use.
UuidPool == <<"u1", "u2", "u3", "u4", "u5", "u6", "u7", "u8">>
uuidv4(n) == UuidPool[n]

\* The defaults of weight and severity of an imported rule.
DEFAULT_WEIGHT == 10
DEFAULT_SEVERITY == ERROR

\* A property value that counts as true in a condition or on the left of
\* ||: the property is there and is not '', 0 or the empty text.  (An
\* array, the empty one too, counts as true.)
Truthy(item, f) ==
  /\ Has(item, f)
  /\ IF f = "weight" THEN item[f] # 0
     ELSE IF f = "regex" THEN item[f] # <<>>
     ELSE IF f = "keywords" THEN TRUE
     ELSE item[f] # ""

\* item.name && item.regex
ItemIsValid(item) == Truthy(item, "name") /\ Truthy(item, "regex")

\* newRules.some(r => r.regex === item.regex)
RegexExists(newRules, item) ==
  \E k \in 1..Len(newRules) : Has(newRules[k], "regex") /\ newRules[k].regex = item.regex

\* Mutant of ImportedRule: the properties of the entry, its id among them,
\* win over the new id.
ImportedRule_KeepsItemId(item, id) ==
  [f \in DOMAIN item \cup {"id", "keywords", "weight", "severity"} |->
     IF f = "id" THEN (IF Has(item, "id") THEN item.id ELSE id)
     ELSE IF f = "keywords" THEN (IF Truthy(item, f) THEN item[f] ELSE <<>>)
     ELSE IF f = "weight" THEN (IF Truthy(item, f) THEN item[f] ELSE DEFAULT_WEIGHT)
     ELSE IF f = "severity" THEN (IF Truthy(item, f) THEN item[f] ELSE DEFAULT_SEVERITY)
     ELSE item[f]]

\* { ...item, id: uuidv4(), keywords: item.keywords || [],
\*   weight: item.weight || 10, severity: item.severity || ErrorSeverity.ERROR }
ImportedRule(item, id) ==
  [f \in DOMAIN item \cup {"id", "keywords", "weight", "severity"} |->
     IF f = "id" THEN id
     ELSE IF f = "keywords" THEN (IF Truthy(item, f) THEN item[f] ELSE <<>>)
     ELSE IF f = "weight" THEN (IF Truthy(item, f) THEN item[f] ELSE DEFAULT_WEIGHT)
     ELSE IF f = "severity" THEN (IF Truthy(item, f) THEN item[f] ELSE DEFAULT_SEVERITY)
     ELSE item[f]]

\* The body of json.forEach((item) => { ... }) on the progress st of the
\* loop: newRules, per entry whether it was pushed, the two counters, the
\* uuids drawn, and whether an entry made the callback throw (reading a
\* property of null is a TypeError).
ImportItem(st, item) ==
  IF st.threw THEN st
  ELSE IF item = JsonNull THEN [st EXCEPT !.threw = TRUE]
  ELSE IF ~ItemIsValid(item) THEN [st EXCEPT !.added = Append(@, FALSE)]
  ELSE IF RegexExists(st.newRules, item)
       THEN [st EXCEPT !.added = Append(@, FALSE), !.duplicateCount = @ + 1]
  ELSE [st EXCEPT !.newRules = Append(@, ImportedRule(item, uuidv4(st.drawn + 1))),
                  !.added = Append(@, TRUE),
                  !.addedCount = @ + 1,
                  !.drawn = @ + 1]

RECURSIVE ImportItems(_, _, _)
ImportItems(st, items, k) ==
  IF k > Len(items) THEN st
  ELSE ImportItems(ImportItem(st, items[k]), items, k + 1)

(***************************************************************************)
(* Import files and the stores they are imported into.                     *)
(***************************************************************************)
MaxEntries == 2

\* name and regex only; the regex of R1
ItemPlain == [name |-> "i1", regex |-> <<"a">>]
\* every property, with the id of R1
ItemFull ==
  [id |-> "r1", name |-> "i2", regex |-> <<"b">>, keywords |-> << <<"b">> >>,
   solution |-> "s", severity |-> WARNING, weight |-> 5]
ItemNoName == [regex |-> <<"b", "a">>, weight |-> 3]
ItemNoRegex == [name |-> "i4", severity |-> CRITICAL]
\* the regex of R1 but for the case of its letter; weight 0
ItemZeroWeight == [name |-> "i5", regex |-> <<"A">>, weight |-> 0]

ItemPool == {ItemPlain, ItemFull, ItemNoName, ItemNoRegex, ItemZeroWeight, JsonNull}

\* Files: text that is not JSON, JSON that is not an array, and arrays.
ImportFiles ==
  { [kind |-> "invalid", items |-> <<>>], [kind |-> "object", items |-> <<>>] }
    \cup { [kind |-> "array", items |-> items] :
             items \in UNION {[1..n -> ItemPool] : n \in 0..MaxEntries} }

ImportStores == { NoItem, Stored(<<>>), Stored(<<R1, R3>>), Stored(INITIAL_RULES_0) }

\* The KnowledgeBase page after it was mounted: loadRules() has set rules
\* to getRules().
ImportInit ==
  /\ storage \in ImportStores
  /\ INITIAL_RULES = IdsOf(INITIAL_RULES_0)
  /\ passed = FALSE
  /\ customRules = <<>>
  /\ argRules = <<>>
  /\ fileContent = <<>>
  /\ outcome = "none"
  /\ report = NoReport
  /\ logged = <<>>
  /\ prevReport = NoReport
  /\ calls = 0
  /\ filterText = <<>>
  /\ sortOrder = "severity_desc"
  /\ expandedGroupIds = {}
  /\ groupedIssues = <<>>
  /\ kbRules = getRules
  /\ importFile = NoFile
  /\ importResult = NoImport
  /\ uuidsDrawn = 0
  /\ PageInit

\* handleJsonImport: reader.onload for the chosen file.  A file that does
\* not parse and an entry that makes the loop throw end in the catch block,
\* before saveRulesBulk; JSON that is not an array is turned away.
handleJsonImport(file) ==
  LET currentRules == getRules
      st == ImportItems([newRules |-> currentRules, added |-> <<>>, addedCount |-> 0,
                         duplicateCount |-> 0, drawn |-> uuidsDrawn, threw |-> FALSE],
                        file.items, 1)
  IN /\ importFile.kind = "none"
     /\ importFile' = file
     /\ IF file.kind = "invalid"
        THEN /\ importResult' = [NoImport EXCEPT !.outcome = "failed", !.before = currentRules]
             /\ UNCHANGED <<storage, kbRules, uuidsDrawn>>
        ELSE IF file.kind # "array"
        THEN /\ importResult' = [NoImport EXCEPT !.outcome = "not_array", !.before = currentRules]
             /\ UNCHANGED <<storage, kbRules, uuidsDrawn>>
        ELSE IF st.threw
        THEN /\ importResult' = [NoImport EXCEPT !.outcome = "failed", !.before = currentRules]
             /\ uuidsDrawn' = st.drawn
             /\ UNCHANGED <<storage, kbRules>>
        ELSE /\ storage' = Stored(st.newRules)
             /\ kbRules' = st.newRules
             /\ uuidsDrawn' = st.drawn
             /\ importResult' =
                  [outcome |-> "done", before |-> currentRules, added |-> st.added,
                   addedCount |-> st.addedCount, duplicateCount |-> st.duplicateCount]
     /\ UNCHANGED <<scanVars, report, viewVars, pageVars>>

ImportNext == \E file \in ImportFiles : handleJsonImport(file)

ImportSpec == ImportInit /\ [][ImportNext]_vars

(***************************************************************************)
(* Properties of the import.                                               *)
(***************************************************************************)
Imported == importResult.outcome = "done"
Items == importFile.items
Before == importResult.before
Added(k) == importResult.added[k]

\* The place in rules of the rule made from the accepted entry k.
PlaceOf(k) == Len(Before) + Cardinality({j \in 1..k : Added(j)})

\* The entry has a name and a pattern.
WellFormed(item) == item # JsonNull /\ Has(item, "name") /\ Has(item, "regex")

\* A rule of the set before the import, or an entry accepted before entry
\* k, has the regex string of entry k.
PatternKnown(k) ==
  \/ \E n \in 1..Len(Before) : Has(Before[n], "regex") /\ Before[n].regex = Items[k].regex
  \/ \E j \in 1..(k - 1) : Added(j) /\ Items[j].regex = Items[k].regex

\* C19: import deduplicates by exact regex string: an entry (that has a
\* name and a regex) is accepted iff neither a rule of the existing set nor
\* an entry accepted earlier in the import has the same regex string; an
\* accepted entry becomes a rule with its regex and an id that no existing
\* rule and no other accepted entry has; the existing rules stay, unchanged
\* and in their order, at the front of the set, which is also what is
\* stored.
C19_ImportDedup ==
  Imported =>
    /\ Len(importResult.added) = Len(Items)
    /\ \A k \in 1..Len(Items) :
         WellFormed(Items[k]) => (Added(k) <=> ~PatternKnown(k))
    /\ Len(kbRules) = PlaceOf(Len(Items))
    /\ \A n \in 1..Len(Before) : kbRules[n] = Before[n]
    /\ \A k \in 1..Len(Items) :
         Added(k) =>
           /\ kbRules[PlaceOf(k)].regex = Items[k].regex
           /\ \A n \in 1..Len(kbRules) :
                n # PlaceOf(k) => Get(kbRules[n], "id") # kbRules[PlaceOf(k)].id
    /\ storage = Stored(kbRules)

\* An import into a set that is not empty: one entry, whose own id is that
\* of an existing rule, is accepted, and another entry is turned down
\* for its regex.
C19_Witness ==
  /\ Imported
  /\ Before # <<>>
  /\ \E k, j \in 1..Len(Items) :
       /\ Added(k)
       /\ Has(Items[k], "id")
       /\ \E n \in 1..Len(Before) : Before[n].id = Items[k].id
       /\ WellFormed(Items[j]) /\ ~Added(j)

\* The default of an optional property.
DefaultOf(f) ==
  IF f = "keywords" THEN <<>> ELSE IF f = "weight" THEN DEFAULT_WEIGHT ELSE DEFAULT_SEVERITY

\* C20: an array of entries is imported to the end whatever its entries
\* are: an entry that lacks name or regex is skipped, and the rule made from
\* an accepted entry has, for each of keywords, weight and severity, the
\* value of the entry when the entry has the property and the default
\* ([], 10, ERROR) when it has not.
C20_UntrustedEntries ==
  importFile.kind = "array" =>
    /\ Imported
    /\ \A k \in 1..Len(Items) :
         /\ ~WellFormed(Items[k]) => ~Added(k)
         /\ Added(k) =>
              \A f \in {"keywords", "weight", "severity"} :
                IF Has(Items[k], f)
                THEN kbRules[PlaceOf(k)][f] = Items[k][f]
                ELSE kbRules[PlaceOf(k)][f] = DefaultOf(f)

(***************************************************************************)
(* Scans started from the pages: handleFileSelect of the Analyzer and      *)
(* runPlaygroundTest of the KnowledgeBase.  Each is cut at its awaits; the *)
(* body of analyzeLog has no await and runs within one step.               *)
(***************************************************************************)
\* rules.filter(r => ids.has(r.id)): a new array.
FilterSelected(rules, ids) == SelectSeq(rules, LAMBDA r : Get(r, "id") \in ids)

\* The stores the pages are mounted on, the files dropped on the Analyzer
\* (a file whose text cannot be read among them) and the playground texts.
PageStores == { NoItem, Stored(<<R1, R3>>), Stored(<<R4, R1, R3>>) }

PageFiles ==
  { [ok |-> FALSE, text |-> <<>>] }
    \cup { [ok |-> TRUE, text |-> t] :
             t \in { <<"a">>, <<"b", "a", LF, "a">>, <<"a", LF, "b", "a", LF>> } }

PlaygroundLogs == { <<>>, <<" ">>, <<"a">>, <<"a", LF, "b", "a">> }

\* Both pages after they were mounted on the same store: each has called
\* getRules() and ticked every rule (or the user has unticked the first).
PagesInit ==
  /\ storage \in PageStores
  /\ INITIAL_RULES = IdsOf(INITIAL_RULES_0)
  /\ passed = FALSE
  /\ customRules = <<>>
  /\ argRules = <<>>
  /\ fileContent = <<>>
  /\ outcome = "none"
  /\ report = NoReport
  /\ logged = <<>>
  /\ prevReport = NoReport
  /\ calls = 0
  /\ filterText = <<>>
  /\ sortOrder = "severity_desc"
  /\ expandedGroupIds = {}
  /\ groupedIssues = <<>>
  /\ kbRules = getRules
  /\ importFile = NoFile
  /\ importResult = NoImport
  /\ uuidsDrawn = 0
  /\ allRules = getRules
  /\ selectedRuleIds \in { {getRules[k].id : k \in 1..Len(getRules)},
                            {getRules[k].id : k \in 2..Len(getRules)} }
  /\ isProcessing = FALSE
  /\ pcFile = "idle"
  /\ fileText = NoText
  /\ scanResult = NoScan
  /\ selectedIssueId = NoSelection
  /\ playgroundLog \in PlaygroundLogs
  /\ playgroundSelectedRules = {getRules[k].id : k \in 1..Len(getRules)}
  /\ playgroundResults = NoResults
  /\ pcPlay = "idle"
  /\ playResult = NoScan
  /\ mounted = TRUE
  /\ searchTerm = <<>>
  /\ currentPage = 1

\* handleFileSelect(file) up to its first await: the state is reset and
\* file.text() is pending.  The upload area takes no file while
\* isProcessing is shown.
StartFileSelect(file) ==
  /\ pcFile = "idle"
  /\ isProcessing' = TRUE
  /\ report' = NoReport
  /\ selectedIssueId' = NoSelection
  /\ expandedGroupIds' = {}
  /\ groupedIssues' = ComputeGroupedIssues(NoReport, filterText, sortOrder)
  /\ fileText' = file
  /\ pcFile' = "reading"
  /\ UNCHANGED <<engineVars, kbVars, filterText, sortOrder, allRules, selectedRuleIds,
                 scanResult, playVars, listVars>>

\* Mutant of TextSettles: a rejection ends the handler in its catch block.
TextSettles_NoFinally ==
  /\ pcFile = "reading"
  /\ pcFile' = IF fileText.ok THEN "waiting" ELSE "idle"
  /\ UNCHANGED <<engineVars, report, viewVars, kbVars, allRules, selectedRuleIds,
                 isProcessing, fileText, scanResult, selectedIssueId, playVars, listVars>>

\* file.text() settles.  Fulfilled: the 500 ms timer is started.  Rejected:
\* catch (console.error, alert) and finally setIsProcessing(false).
TextSettles ==
  /\ pcFile = "reading"
  /\ IF fileText.ok
     THEN pcFile' = "waiting" /\ UNCHANGED isProcessing
     ELSE pcFile' = "idle" /\ isProcessing' = FALSE
  /\ UNCHANGED <<engineVars, report, viewVars, kbVars, allRules, selectedRuleIds,
                 fileText, scanResult, selectedIssueId, playVars, listVars>>

\* Mutant of TimerFires: analyzeLog is handed the allRules array itself.
TimerFires_NoCopy ==
  /\ pcFile = "waiting"
  /\ LET res == analyzeLog(fileText.text, allRules)
     IN /\ scanResult' = [outcome |-> res.outcome, report |-> res.report]
        /\ allRules' = res.rules
  /\ pcFile' = "resuming"
  /\ UNCHANGED <<engineVars, report, viewVars, kbVars, selectedRuleIds, isProcessing,
                 fileText, selectedIssueId, playVars, listVars>>

\* The timer fires: activeRules = allRules.filter(...) and the call of
\* analyzeLog, whose body runs to its return; handleFileSelect then awaits
\* the promise.  The array that analyzeLog sorts is activeRules.
TimerFires ==
  /\ pcFile = "waiting"
  /\ LET activeRules == FilterSelected(allRules, selectedRuleIds)
         res == analyzeLog(fileText.text, activeRules)
     IN scanResult' = [outcome |-> res.outcome, report |-> res.report]
  /\ pcFile' = "resuming"
  /\ UNCHANGED <<engineVars, report, viewVars, kbVars, allRules, selectedRuleIds,
                 isProcessing, fileText, selectedIssueId, playVars, listVars>>

\* The promise of analyzeLog settles and handleFileSelect runs to its end:
\* setReport(result), or the catch block; then finally
\* setIsProcessing(false).
ResumeFileSelect ==
  /\ pcFile = "resuming"
  /\ report' = IF scanResult.outcome = "resolved" THEN scanResult.report ELSE report
  /\ groupedIssues' = ComputeGroupedIssues(report', filterText, sortOrder)
  /\ isProcessing' = FALSE
  /\ pcFile' = "idle"
  /\ scanResult' = NoScan
  /\ UNCHANGED <<engineVars, kbVars, filterText, sortOrder, expandedGroupIds, allRules,
                 selectedRuleIds, fileText, selectedIssueId, playVars, listVars>>

\* runPlaygroundTest up to its await: nothing happens on a blank text;
\* otherwise activeRules = rules.filter(...) and the call of analyzeLog.
RunPlaygroundTest ==
  /\ pcPlay = "idle"
  /\ Trim(playgroundLog) # <<>>
  /\ LET activeRules == FilterSelected(kbRules, playgroundSelectedRules)
         res == analyzeLog(playgroundLog, activeRules)
     IN playResult' = [outcome |-> res.outcome, report |-> res.report]
  /\ pcPlay' = "resuming"
  /\ UNCHANGED <<engineVars, report, viewVars, kbVars, fileVars, selectedIssueId,
                 playgroundLog, playgroundSelectedRules, playgroundResults, listVars>>

\* The promise settles: setPlaygroundResults(report.issues).  (A rejection
\* is not caught: the results stay as they are.)
ResumePlaygroundTest ==
  /\ pcPlay = "resuming"
  /\ playgroundResults' =
       IF playResult.outcome = "resolved"
       THEN [isNull |-> FALSE, issues |-> playResult.report.issues]
       ELSE playgroundResults
  /\ pcPlay' = "done"
  /\ playResult' = NoScan
  /\ UNCHANGED <<engineVars, report, viewVars, kbVars, fileVars, selectedIssueId,
                 playgroundLog, playgroundSelectedRules, listVars>>

PagesNext ==
  \/ \E file \in PageFiles : StartFileSelect(file)
  \/ TextSettles
  \/ TimerFires
  \/ ResumeFileSelect
  \/ RunPlaygroundTest
  \/ ResumePlaygroundTest

PagesSpec == PagesInit /\ [][PagesNext]_vars

\* The continuation handleFileSelect is waiting for runs: in PagesSpec a step
\* that moves pcFile away from a value other than "idle" is a step of
\* TextSettles, of TimerFires or of ResumeFileSelect, and one of the three
\* is enabled exactly when pcFile is not "idle".
FileSelectContinues ==
  /\ pcFile # "idle"
  /\ pcFile' \in {"idle", "waiting", "resuming"} \ {pcFile}

\* A pending file.text(), a started timer and a settled promise do not wait
\* for ever: the event loop runs the continuation of handleFileSelect.
PagesFairSpec ==
  PagesSpec /\ WF_pcFile(FileSelectContinues)

(***************************************************************************)
(* Properties of the scans started from the pages.                         *)
(***************************************************************************)
\* The rules both pages were mounted with.
MountedRules == IF storage.present THEN storage.item ELSE INITIAL_RULES_0

\* The issues of a scan of the text with the ticked rules, run by itself.
AloneIssues(text, ids) ==
  analyzeLog(text, FilterSelected(MountedRules, ids)).report.issues

\* C21: scans do not disturb each other.  No step of a page scan changes
\* the state the scans share (the store, the INITIAL_RULES array, the rule
\* arrays the pages hold); the step that reads a scan's rules is the step
\* that produces its report; and under every interleaving the promise of a
\* scan, and what the page then shows, carries the issues of that scan run
\* by itself.
C21_ScanIsolation ==
  [][ /\ storage' = storage /\ INITIAL_RULES' = INITIAL_RULES
      /\ allRules' = allRules /\ kbRules' = kbRules
      /\ (pcFile = "waiting" /\ pcFile' # "waiting") =>
           /\ pcFile' = "resuming"
           /\ scanResult'.outcome = "resolved"
           /\ scanResult'.report.issues = AloneIssues(fileText.text, selectedRuleIds)
      /\ (pcFile = "resuming" /\ pcFile' # "resuming") =>
           report'.issues = AloneIssues(fileText.text, selectedRuleIds)
      /\ (pcPlay = "idle" /\ pcPlay' # "idle") =>
           /\ pcPlay' = "resuming"
           /\ playResult'.outcome = "resolved"
           /\ playResult'.report.issues = AloneIssues(playgroundLog, playgroundSelectedRules)
      /\ (pcPlay = "resuming" /\ pcPlay' # "resuming") =>
           playgroundResults'.issues = AloneIssues(playgroundLog, playgroundSelectedRules)
    ]_vars

\* Both scans have been made and neither caller has resumed yet; each found
\* issues, and the rules the pages hold are not in the order of their
\* weights.
C21_Witness ==
  /\ pcFile = "resuming" /\ pcPlay = "resuming"
  /\ scanResult.report.issues # <<>>
  /\ playResult.report.issues # <<>>
  /\ SortRules(allRules) # allRules
  /\ allRules = kbRules

\* C30: handleFileSelect sets isProcessing to true and report to null when
\* it starts; isProcessing stays true while it runs; when it ends,
\* isProcessing is false and report is the result of analyzeLog if the file
\* was read and analyzeLog resolved, and null otherwise; and it does end:
\* isProcessing never stays true for ever.
C30_ProcessingClears ==
  /\ [][ /\ (pcFile = "idle" /\ pcFile' # "idle") =>
              (isProcessing' /\ report' = NoReport)
         /\ (pcFile # "idle" /\ pcFile' # "idle") =>
              (isProcessing' /\ report' = NoReport)
         /\ (pcFile # "idle" /\ pcFile' = "idle") =>
              /\ ~isProcessing'
              /\ report' = IF pcFile = "resuming" /\ scanResult.outcome = "resolved"
                           THEN scanResult.report ELSE NoReport ]_vars
  /\ (isProcessing ~> ~isProcessing)

\* A file whose text could not be read has been handled to the end (no
\* report, processing flag cleared) while a playground test ran to its end.
C30_Witness ==
  /\ pcFile = "idle"
  /\ ~fileText.ok
  /\ ~isProcessing
  /\ report = NoReport
  /\ pcPlay = "done"

(***************************************************************************)
(* Analyzer page: the detail panel of the selected issue.                  *)
(***************************************************************************)
\* getIssueId: `${issue.ruleId}-${issue.lineNumber}`.  lineNumber is a
\* number, so the text after the last "-" is the line number and the text
\* before it the rule id: two ids are equal exactly when both parts are.
getIssueId(issue) ==
  [isNull |-> FALSE, ruleId |-> issue.ruleId, lineNumber |-> issue.lineNumber]

\* Array.prototype.findIndex for the issue with a given id, 0-based; -1 when
\* there is none.
FindIssueIndex(issues, id) ==
  IF \E k \in 1..Len(issues) : getIssueId(issues[k]) = id
  THEN (CHOOSE k \in 1..Len(issues) :
          /\ getIssueId(issues[k]) = id
          /\ \A j \in 1..(k - 1) : getIssueId(issues[j]) # id) - 1
  ELSE -1

\* Array.prototype.find of the group of a rule: its place in groups, 0 for
\* undefined.
FindGroup(groups, ruleId) ==
  IF \E g \in 1..Len(groups) : groups[g].ruleId = ruleId
  THEN CHOOSE g \in 1..Len(groups) :
         /\ groups[g].ruleId = ruleId
         /\ \A j \in 1..(g - 1) : groups[j].ruleId # ruleId
  ELSE 0

\* The value null of selectedIssueData.
NoDetail ==
  [isNull |-> TRUE, issueAt |-> 0, index |-> 0, total |-> 0,
   prevId |-> NoSelection, nextId |-> NoSelection]

\* The memo selectedIssueData; issueAt is the place in report.issues of the
\* issue found there, index is 0-based as in the code.
selectedIssueData(sel, rep, groups) ==
  IF sel.isNull \/ rep = NoReport THEN NoDetail
  ELSE LET at == FindIssueIndex(rep.issues, sel) + 1
       IN IF at = 0 THEN NoDetail
          ELSE LET issue == rep.issues[at]
                   g == FindGroup(groups, issue.ruleId)
               IN IF g = 0
                  THEN [isNull |-> FALSE, issueAt |-> at, index |-> 0, total |-> 1,
                        prevId |-> NoSelection, nextId |-> NoSelection]
                  ELSE LET members == groups[g].issues
                           index == FindIssueIndex(members, sel)
                       IN [isNull |-> FALSE,
                           issueAt |-> at,
                           index |-> index,
                           total |-> Len(members),
                           prevId |-> IF index > 0 THEN getIssueId(members[index])
                                      ELSE NoSelection,
                           nextId |-> IF index < Len(members) - 1
                                      THEN getIssueId(members[index + 2])
                                      ELSE NoSelection]

Detail == selectedIssueData(selectedIssueId, report, groupedIssues)

\* Reports of the page with the detail panel: MaxIssues issues of two rules.
DetailKinds == { <<"3", <<"a">> >>, <<"3", <<"b">> >>, <<"1", <<"b">> >> }

DetailReports ==
  { [totalLines |-> 2 * MaxIssues,
     issues |-> [k \in 1..MaxIssues |-> ViewIssue(kinds[k], k)]] :
      kinds \in [1..MaxIssues -> DetailKinds] }

DetailInit ==
  /\ ViewInit
  /\ report \in DetailReports

\* selectIssue(issue): a click on a row of an expanded group.
selectIssue(g, k) ==
  /\ groupedIssues[g].ruleId \in expandedGroupIds
  /\ selectedIssueId' = getIssueId(groupedIssues[g].issues[k])
  /\ UNCHANGED <<engineVars, report, viewVars, kbVars, fileVars, playVars, listVars>>

\* The previous button of the detail panel: disabled without a prevId.
SelectPrev ==
  /\ ~Detail.isNull
  /\ ~Detail.prevId.isNull
  /\ selectedIssueId' = Detail.prevId
  /\ UNCHANGED <<engineVars, report, viewVars, kbVars, fileVars, playVars, listVars>>

\* The next button of the detail panel: disabled without a nextId.
SelectNext ==
  /\ ~Detail.isNull
  /\ ~Detail.nextId.isNull
  /\ selectedIssueId' = Detail.nextId
  /\ UNCHANGED <<engineVars, report, viewVars, kbVars, fileVars, playVars, listVars>>

DetailNext ==
  \/ \E text \in FilterTexts : SetFilterText(text)
  \/ \E order \in SortOrders : SetSortOrder(order)
  \/ \E ruleId \in ViewRuleIds : ToggleGroup(ruleId)
  \/ \E g \in 1..Len(groupedIssues) : \E k \in 1..Len(groupedIssues[g].issues) :
       selectIssue(g, k)
  \/ SelectPrev
  \/ SelectNext

DetailSpec == DetailInit /\ [][DetailNext]_vars

\* C28: whenever an issue is selected, the position shown in the detail
\* panel is in range, 0 <= index < total, and, when the group of the issue
\* is on display, the member at index is the selected issue, prevId is the
\* id of the member before it (null for the first) and nextId the id of the
\* member after it (null for the last).
C28_DetailInRange ==
  ~Detail.isNull =>
    /\ 0 <= Detail.index
    /\ Detail.index < Detail.total
    /\ LET g == FindGroup(groupedIssues, selectedIssueId.ruleId)
       IN g # 0 =>
            LET members == groupedIssues[g].issues
                at == Detail.index + 1
            IN /\ getIssueId(members[at]) = selectedIssueId
               /\ Detail.prevId = IF at > 1 THEN getIssueId(members[at - 1])
                                  ELSE NoSelection
               /\ Detail.nextId = IF at < Len(members) THEN getIssueId(members[at + 1])
                                  ELSE NoSelection

(***************************************************************************)
(* The rule store and the rule list of the KnowledgeBase page.             *)
(***************************************************************************)
PAGE_SIZE == 8

\* Mutant of initStorage: the store is seeded whenever it holds no rule.
initStorage_SeedsWhenEmpty(st) ==
  IF ~st.present \/ st.item = <<>> THEN Stored(InitialRulesArray) ELSE st

\* initStorage(): the defaults are stored when getItem(STORAGE_KEY) is null.
initStorage(st) ==
  IF ~st.present THEN Stored(InitialRulesArray) ELSE st

\* current.findIndex(r => r.id === rule.id), 0-based; -1 when there is none.
FindIndexById(current, id) ==
  IF \E k \in 1..Len(current) : Has(current[k], "id") /\ current[k].id = id
  THEN (CHOOSE k \in 1..Len(current) :
          /\ Has(current[k], "id") /\ current[k].id = id
          /\ \A j \in 1..(k - 1) : ~(Has(current[j], "id") /\ current[j].id = id)) - 1
  ELSE -1

\* Mutant of saveRule: the rule is always appended.
saveRule_AlwaysAppends(rule) == Stored(Append(getRules, rule))

\* saveRule(rule): the item it leaves in the store.
saveRule(rule) ==
  LET current == getRules
      index == FindIndexById(current, rule.id)
  IN Stored(IF index >= 0 THEN [current EXCEPT ![index + 1] = rule]
            ELSE Append(current, rule))

\* deleteRule(id): the item it leaves in the store.
deleteRule(id) ==
  Stored(SelectSeq(getRules, LAMBDA r : ~(Has(r, "id") /\ r.id = id)))

clearRules == Stored(<<>>)

resetRulesToDefaults == Stored(InitialRulesArray)

\* loadRules(), run after the store was written: setRules(getRules()) and
\* every rule ticked for the playground.
loadRules ==
  /\ kbRules' = getRules'
  /\ playgroundSelectedRules' = {getRules'[k].id : k \in 1..Len(getRules')}

\* The filter of filteredRules: the lowered search term is part of the
\* lowered name, regex or one of the keywords.  A name is one token.
MatchesSearch(r, term) ==
  \/ StrIncludes(ToLowerCase(<<r.name>>), ToLowerCase(term))
  \/ StrIncludes(ToLowerCase(r.regex), ToLowerCase(term))
  \/ \E k \in 1..Len(r.keywords) :
       StrIncludes(ToLowerCase(r.keywords[k]), ToLowerCase(term))

\* rules.filter(...).sort((a, b) => (b.weight || 0) - (a.weight || 0))
filteredRules ==
  SortRules(SelectSeq(kbRules, LAMBDA r : MatchesSearch(r, searchTerm)))

\* Math.ceil(filteredRules.length / PAGE_SIZE)
totalPages == (Len(filteredRules) + PAGE_SIZE - 1) \div PAGE_SIZE

\* filteredRules.slice((currentPage - 1) * PAGE_SIZE, currentPage * PAGE_SIZE)
paginatedRules ==
  Slice(filteredRules, (currentPage - 1) * PAGE_SIZE, currentPage * PAGE_SIZE)

\* The rule that handleSave builds from the form.
NewRule(formData, uuid) ==
  [id |-> IF Truthy(formData, "id") THEN formData.id ELSE uuid,
   name |-> formData.name,
   regex |-> formData.regex,
   keywords |-> IF Truthy(formData, "keywords") THEN formData.keywords ELSE <<>>,
   solution |-> IF Truthy(formData, "solution") THEN formData.solution ELSE "",
   severity |-> IF Truthy(formData, "severity") THEN formData.severity ELSE ERROR,
   weight |-> IF Truthy(formData, "weight") THEN formData.weight ELSE 10]

\* handleSave turns the form away: name or regex is missing, or the form is
\* for a new rule and a rule of the page has its regex.
SaveRejected(formData) ==
  \/ ~Truthy(formData, "name")
  \/ ~Truthy(formData, "regex")
  \/ ~Truthy(formData, "id") /\ RegexExists(kbRules, formData)

(***************************************************************************)
(* Inputs of the KnowledgeBase page.                                       *)
(***************************************************************************)
MaxCreated == 1

\* The rules the user edits and deletes, when they are on the page shown.
TouchedIds == {"1", "7"}

\* The patterns typed into the form: a new one and the one of rule '2'.
FormPatterns == { <<"x">>, INITIAL_RULES_0[2].regex }

\* The form after resetForm() and the user's typing.
CreateForms ==
  { [name |-> n, regex |-> re, keywords |-> <<>>, solution |-> "",
     severity |-> ERROR, weight |-> w] :
      n \in {"n1"}, re \in FormPatterns \cup {<<>>}, w \in {10, 0} }

\* The form after setFormData(rule) for a rule of the page shown and the
\* user's typing.
EditForms ==
  { [paginatedRules[k] EXCEPT !.regex = re] :
      k \in {j \in 1..Len(paginatedRules) : paginatedRules[j].id \in TouchedIds},
      re \in FormPatterns }

SearchTerms == { <<>>, <<"A">> }

\* The files imported: two entries, with patterns no default rule has.
KbFiles ==
  { f \in ImportFiles :
      /\ f.kind = "array"
      /\ Len(f.items) = 2
      /\ f.items[1] = ItemPlain
      /\ \A k \in 1..Len(f.items) : f.items[k] \in {ItemPlain, ItemFull} }

\* The stores the application finds when it is loaded: no item (first
\* run), or the empty list a clearRules of an earlier session left.
KbStores == { NoItem, Stored(<<>>) }

\* The browser before the application is loaded.
KbInit ==
  /\ storage \in KbStores
  /\ INITIAL_RULES = IdsOf(INITIAL_RULES_0)
  /\ passed = FALSE
  /\ customRules = <<>>
  /\ argRules = <<>>
  /\ fileContent = <<>>
  /\ outcome = "none"
  /\ report = NoReport
  /\ logged = <<>>
  /\ prevReport = NoReport
  /\ calls = 0
  /\ filterText = <<>>
  /\ sortOrder = "severity_desc"
  /\ expandedGroupIds = {}
  /\ groupedIssues = <<>>
  /\ kbRules = <<>>
  /\ importFile = NoFile
  /\ importResult = NoImport
  /\ uuidsDrawn = 0
  /\ allRules = <<>>
  /\ selectedRuleIds = {}
  /\ isProcessing = FALSE
  /\ pcFile = "idle"
  /\ fileText = NoText
  /\ scanResult = NoScan
  /\ selectedIssueId = NoSelection
  /\ playgroundLog = <<>>
  /\ playgroundSelectedRules = {}
  /\ playgroundResults = NoResults
  /\ pcPlay = "idle"
  /\ playResult = NoScan
  /\ searchTerm = <<>>
  /\ currentPage = 1
  /\ mounted = FALSE

kbKeeps ==
  <<scanVars, report, viewVars, importFile, importResult, fileVars, selectedIssueId,
    playgroundLog, playgroundResults, pcPlay, playResult>>

\* The application is loaded, or loaded again: the module analysisEngine is
\* evaluated (initStorage) and the KnowledgeBase page is mounted with its
\* initial state (loadRules in the mount effect).
LoadPage ==
  /\ storage' = initStorage(storage)
  /\ loadRules
  /\ searchTerm' = <<>>
  /\ currentPage' = 1
  /\ mounted' = TRUE
  /\ UNCHANGED <<kbKeeps, uuidsDrawn>>

\* handleDelete(rule.id) from a row of the page shown, confirmed.
handleDelete(id) ==
  /\ mounted
  /\ \E k \in 1..Len(paginatedRules) : paginatedRules[k].id = id
  /\ storage' = deleteRule(id)
  /\ loadRules
  /\ UNCHANGED <<kbKeeps, uuidsDrawn, listVars>>

\* handleClear, confirmed.
handleClear ==
  /\ mounted
  /\ storage' = clearRules
  /\ loadRules
  /\ UNCHANGED <<kbKeeps, uuidsDrawn, listVars>>

\* handleReset, confirmed.
handleReset ==
  /\ mounted
  /\ storage' = resetRulesToDefaults
  /\ loadRules
  /\ UNCHANGED <<kbKeeps, uuidsDrawn, listVars>>

\* handleSave with the form formData; a form that is turned away changes
\* nothing.
handleSave(formData) ==
  /\ mounted
  /\ Truthy(formData, "id") \/ uuidsDrawn < MaxCreated
  /\ IF SaveRejected(formData)
     THEN UNCHANGED <<storage, kbRules, playgroundSelectedRules, uuidsDrawn>>
     ELSE /\ storage' = saveRule(NewRule(formData, uuidv4(uuidsDrawn + 1)))
          /\ loadRules
          /\ uuidsDrawn' = IF Truthy(formData, "id") THEN uuidsDrawn ELSE uuidsDrawn + 1
  /\ UNCHANGED <<kbKeeps, listVars>>

\* onChange of the search box: setSearchTerm(value); setCurrentPage(1).
SetSearchTerm(term) ==
  /\ mounted
  /\ searchTerm' = term
  /\ currentPage' = 1
  /\ UNCHANGED <<engineVars, report, viewVars, kbVars, fileVars, selectedIssueId,
                 playVars, mounted>>

\* The button of the previous page: rendered when totalPages > 1, disabled
\* on page 1.
PrevPage ==
  /\ mounted
  /\ totalPages > 1
  /\ currentPage # 1
  /\ currentPage' = Max(1, currentPage - 1)
  /\ UNCHANGED <<engineVars, report, viewVars, kbVars, fileVars, selectedIssueId,
                 playVars, searchTerm, mounted>>

\* The button of the next page: rendered when totalPages > 1, disabled on
\* the last page.
NextPage ==
  /\ mounted
  /\ totalPages > 1
  /\ currentPage # totalPages
  /\ currentPage' = Min(totalPages, currentPage + 1)
  /\ UNCHANGED <<engineVars, report, viewVars, kbVars, fileVars, selectedIssueId,
                 playVars, searchTerm, mounted>>

KbNext ==
  \/ LoadPage
  \/ \E id \in TouchedIds : handleDelete(id)
  \/ handleClear
  \/ handleReset
  \/ \E formData \in CreateForms \cup EditForms : handleSave(formData)
  \/ mounted /\ \E file \in KbFiles : handleJsonImport(file)
  \/ \E term \in SearchTerms : SetSearchTerm(term)
  \/ PrevPage
  \/ NextPage

KbSpec == KbInit /\ [][KbNext]_vars

(***************************************************************************)
(* Properties of the rule store and of the rule list.                      *)
(***************************************************************************)
\* No two rules of a list have the same id.
IdsUnique(rules) ==
  \A i, j \in 1..Len(rules) : i # j => rules[i].id # rules[j].id

\* The forms of new rules and of the touched rules of the page, on the page
\* shown or not.
PageForms ==
  CreateForms \cup
    { [kbRules[k] EXCEPT !.regex = re] :
        k \in {j \in 1..Len(kbRules) : kbRules[j].id \in TouchedIds},
        re \in FormPatterns }

\* A form that handleSave accepts.
Accepted(formData) ==
  /\ mounted
  /\ ~SaveRejected(formData)

\* C22: no two stored rules share an id, whatever sequence of saves,
\* deletions, clears, resets and imports led to the store; a save of a form
\* with the id of a stored rule replaces that rule where it stands and
\* leaves the other rules alone, and a save of a form without an id adds
\* exactly one rule, at the end, with an id no stored rule had.
C22_IdsUnique ==
  [][ /\ IdsUnique(getRules)
      /\ IdsUnique(getRules')
      /\ \A formData \in PageForms :
           (Accepted(formData) /\ handleSave(formData)) =>
             LET before == getRules
                 after == getRules'
             IN IF Truthy(formData, "id")
                THEN /\ Len(after) = Len(before)
                     /\ \E k \in 1..Len(before) :
                          /\ before[k].id = formData.id
                          /\ after[k].id = formData.id
                          /\ after[k].regex = formData.regex
                          /\ \A j \in 1..Len(before) : j # k => after[j] = before[j]
                ELSE /\ Len(after) = Len(before) + 1
                     /\ SubSeq(after, 1, Len(before)) = before
                     /\ after[Len(after)].regex = formData.regex
                     /\ \A j \in 1..Len(before) : before[j].id # after[Len(after)].id ]_vars

\* The store holds defaults, a rule made with the form and imported rules,
\* after rule '1' was edited and rule '7' deleted.
C22_Witness ==
  /\ mounted
  /\ Len(getRules) > 7
  /\ importResult.addedCount = 2
  /\ \E k \in 1..Len(getRules) : getRules[k].id = uuidv4(1) /\ getRules[k].regex = <<"x">>
  /\ \E k \in 1..Len(getRules) :
       getRules[k].id = "1" /\ getRules[k].regex = INITIAL_RULES_0[2].regex
  /\ \A k \in 1..Len(getRules) : getRules[k].id # "7"

\* A step that stores rules: a save, an import or the reset to defaults.
StoresRules ==
  \/ handleReset
  \/ \E formData \in PageForms : handleSave(formData)
  \/ \E file \in KbFiles : handleJsonImport(file)

\* C25: loading the application seeds the store with the default rules when
\* the key is absent and leaves a store that is there as it is; after
\* clearRules the store is there and getRules returns the empty list; and
\* while that is so, every step but a save, an import or a reset (a load of
\* the application among them) leaves getRules empty.
C25_SeededOnlyWhenAbsent ==
  [][ /\ LoadPage =>
           /\ storage.present => storage' = storage
           /\ ~storage.present => storage' = Stored(InitialRulesArray)
      /\ handleClear => (storage'.present /\ getRules' = <<>>)
      /\ (storage.present /\ getRules = <<>> /\ ~StoresRules) =>
           (storage'.present /\ getRules' = <<>>) ]_vars

\* The user has imported rules and cleared the store, and the application
\* was loaded after that: the store is there, with no rule.
C25_Witness ==
  /\ mounted
  /\ storage = Stored(<<>>)
  /\ kbRules = <<>>
  /\ importResult.addedCount = 2
  /\ playgroundSelectedRules = {}
  /\ currentPage = 1
  /\ searchTerm = <<>>

\* C27: no two stored rules have the same regex string.
C27_PatternsUnique ==
  \A i, j \in 1..Len(getRules) : i # j => getRules[i].regex # getRules[j].regex

\* C29: currentPage lies in 1 .. max(1, totalPages), and the page shown
\* has a rule whenever a rule passes the search filter.
C29_PageInRange ==
  mounted =>
    /\ currentPage \in 1..Max(1, totalPages)
    /\ filteredRules # <<>> => paginatedRules # <<>>

(***************************************************************************)
(* Properties of the matching strategy of the engine.                      *)
(***************************************************************************)
\* The pattern text of rule k has a newline, literal or escaped.
HasNewline(k) ==
  \E p \in 1..Len(argRules[k].regex) : argRules[k].regex[p] \in {LF, ESC_N}

\* Lines first..last (1-based) joined with newline separators.
RECURSIVE JoinLines(_, _)
JoinLines(first, last) ==
  IF first > last THEN <<>>
  ELSE IF first = last THEN Lines[first]
  ELSE Lines[first] \o <<LF>> \o JoinLines(first + 1, last)

\* The text the claimed strategy evaluates rule k on at line i (0-based):
\* line i, or lines i .. min(i + 9, N - 1) joined.
StrategyText(k, i) ==
  IF HasNewline(k) THEN JoinLines(i + 1, Min(i + 10, NumLines)) ELSE Lines[i + 1]

\* Rule k is a candidate at line i under the claimed strategy: it is
\* active, line i alone passes its keyword filter, and its pattern matches
\* the strategy's text.
StrategyMatches(k, i) ==
  /\ Active(k)
  /\ \/ ~Has(argRules[k], "keywords")
     \/ argRules[k].keywords = <<>>
     \/ \E w \in 1..Len(argRules[k].keywords) :
          StrIncludes(Lines[i + 1], argRules[k].keywords[w])
  /\ RegExpExec(RegExpNew(SanitizeRegex(argRules[k].regex)), StrategyText(k, i)).found

Evaluated(k, i) ==
  /\ ~TooLong(i)
  /\ Active(k)
  /\ PassesKeywordFilter(argRules[k], Lines[i + 1])
  /\ \A o \in Matching(i) : o = k \/ Outranks(k, o)

\* The lines (0-based) of the text rule k is evaluated on at line i.
EvaluatedLines(k, i) ==
  IF CompiledRule(argRules[k]).isMultiline
  THEN i..Min(i + WINDOW_LINES - 1, NumLines - 1)
  ELSE {i}

\* C24: no pattern is evaluated on a text that contains a line of more than
\* 2000 characters.
C24_CapBoundsEvaluation ==
  Called =>
    \A k \in RuleIdx, i \in 0..(NumLines - 1) :
      Evaluated(k, i) => \A j \in EvaluatedLines(k, i) : ~TooLong(j)

\* C26: the match behind every Issue of a multi-line rule begins on the
\* anchor line of the Issue.
C26_MatchBeginsOnAnchor ==
  Called =>
    \A n \in IssueIdx :
      CompiledRule(RuleOf(Issues[n].ruleId)).isMultiline =>
        (Issues[n].lineNumber - 1) \in MatchedLines(n)
====
